---- MODULE Spec2Model ----
(***************************************************************************)
(* LLM security gateway: the request pipeline of src/main.py together     *)
(* with authentication (src/security/auth.py), the sliding-window rate    *)
(* limiter (src/security/ratelimit.py) and the prompt scanners.           *)
(*                                                                         *)
(* Spec handles the requests one after the other, stage by stage.  The    *)
(* only state two requests share is the limiter's table of windows;       *)
(* SpecLimiter runs concurrent tasks through check_rate_limit.  Tasks are *)
(* asyncio tasks on one event loop: a task runs without interruption      *)
(* between two suspension points, and `running` is the task that owns the *)
(* loop.                                                                   *)
(*                                                                         *)
(* Times are in tenths of a second, the precision to which the limiter    *)
(* rounds reset_seconds (round(reset, 1)).                                 *)
(***************************************************************************)
EXTENDS Integers, Sequences, FiniteSets, TLC

(***************************************************************************)
(* Bounds of the model                                                     *)
(***************************************************************************)
MaxRequests == 2       \* Spec: how many requests arrive in one run
MaxChecks == 4         \* SpecLimiter: how many check_rate_limit calls are made
MaxTicks == 2          \* how many times the clock advances
MaxResets == 1         \* SpecReset: reset_client calls (a helper for tests)
MaxTokens == 2         \* SpecPII: how many tokens a prompt has at most
LimitA == 2            \* rate_limit_rpm of client-a in the registry file
LimitB == 1            \* rate_limit_rpm of client-b in the registry file
GlobalRpm == 1         \* settings.rate_limit_rpm, used by legacy clients

Tasks == {"t1", "t2"}        \* SpecLimiter: tasks that can be in check_rate_limit
NoTask == "none"
TickSteps == {300, 301}

(***************************************************************************)
(* Program constants                                                       *)
(***************************************************************************)
WINDOW_SECONDS == 600          \* 60.0 s
INJECTION_THRESHOLD == 70      \* settings.injection_threshold 0.7, in 1/100

Max(a, b) == IF a >= b THEN a ELSE b
Min(a, b) == IF a <= b THEN a ELSE b

(***************************************************************************)
(* API keys are character sequences (the legacy client id is built from   *)
(* the first eight characters of the key).                                 *)
(***************************************************************************)
NoKey == <<>>                                   \* header X-API-Key absent
KeyA == <<"k", "-", "a">>
KeyB == <<"k", "-", "b">>
KeySus == <<"k", "-", "s">>
KeyBad == <<"k", "-", "x">>
KeyC == <<"k", "-", "c">>
KeyE == <<"k", "-", "e">>
KeyLegacy1 == <<"d", "e", "v", "-", "k", "e", "y", "-", "1">>
KeyLegacy2 == <<"d", "e", "v", "-", "k", "e", "y", "-", "2">>
Keys == {KeyA, KeyB, KeySus, KeyBad, KeyLegacy1, KeyLegacy2}

NoModel == "<absent>"
Models == {"gpt-4o", NoModel}

IdA == <<"c", "l", "i", "e", "n", "t", "-", "a">>
IdB == <<"c", "l", "i", "e", "n", "t", "-", "b">>
IdSus == <<"c", "l", "i", "e", "n", "t", "-", "s">>
IdC == <<"c", "l", "i", "e", "n", "t", "-", "c">>
IdE == <<"c", "l", "i", "e", "n", "t", "-", "e">>

\* ClientConfig
ClientConfig(id, key, prov, rpm, allow, upkey, bedrock, status) ==
    [client_id |-> id, api_key |-> key, provider |-> prov,
     rate_limit_rpm |-> rpm, model_allowlist |-> allow,
     upstream_api_key |-> upkey, bedrock_model_id |-> bedrock, status |-> status]

NoClient == ClientConfig(<<>>, NoKey, "", 0, {}, "", "", "")

\* The registry file clients.json as loaded by JSONClientStore._load
RegistryFile ==
    << ClientConfig(IdA, KeyA, "openai", LimitA, {"gpt-4o"}, "sk-a", "", "active"),
       ClientConfig(IdB, KeyB, "bedrock", LimitB, {"unknown"}, "", "claude-3", "active"),
       ClientConfig(IdSus, KeySus, "openai", LimitB, {}, "", "", "suspended"),
       ClientConfig(IdC, KeyC, "bedrock", LimitA, {}, "", "claude-3", "active"),
       ClientConfig(IdE, KeyE, "bedrock", LimitA, {}, "", "", "active") >>

\* settings.api_keys_list (GATEWAY_API_KEYS split on commas)
api_keys_list == << KeyLegacy1, KeyLegacy2, KeySus >>
UPSTREAM_API_KEY == "sk-global"

VARIABLES
    settings,        \* the Settings snapshot (get_settings, cached)
    now,             \* time.monotonic()
    ticks,           \* number of clock advances so far
    client_windows,  \* ratelimit._client_windows: client_id -> timestamps
    req,             \* the request being handled
    arrivals,        \* number of requests that have arrived so far
    task,            \* SpecLimiter: per task, its call of check_rate_limit
    running,         \* SpecLimiter: the task that owns the event loop, or NoTask
    checks,          \* SpecLimiter: number of calls made so far
    resets,          \* SpecReset: the clients reset_client was called for, in order
    admitted,        \* history: client_id -> timestamps of allowed checks
    fresh,           \* history: clients reset and not checked since
    _cache,          \* DynamoDBClientStore._cache: api_key -> (config, expires_at)
    table,           \* the DynamoDB table: api_key -> item, as the backend holds it
    lookups,         \* SpecCache: per task, its call of get_by_api_key
    queries,         \* history: api_key -> what its backend queries returned
    overlaps,        \* history: the keys two lookups were in flight for at once
    _clients,        \* JSONClientStore._clients: the records as last loaded
    _last_mtime,     \* JSONClientStore._last_mtime
    file,            \* the registry file on disk: exists, mtime, contents
    _providers,      \* registry._providers: (name, instance) in insertion order
    instances,       \* the provider instances created so far and their state
    closing,         \* SpecRegistry: the call of close_all_providers
    gets             \* history: the calls of get_provider and what they returned

vars ==
    << settings, now, ticks, client_windows, req, arrivals, task, running, checks,
       resets, admitted, fresh, _cache, table, lookups, queries, overlaps,
       _clients, _last_mtime, file, _providers, instances, closing, gets >>

cacheVars == << _cache, table, queries, overlaps >>
fileVars == << _clients, _last_mtime, file >>
registryVars == << _providers, instances, closing, gets >>
storeVars == << cacheVars, fileVars, registryVars, lookups >>

(***************************************************************************)
(* Client directory and authentication                                     *)
(***************************************************************************)

\* Variant: a directory in which no lookup finds a record
NoRecordFound(clients, api_key) == NoClient

\* JSONClientStore.get_by_api_key: scan every record, keep the last match
get_by_api_key(clients, api_key) ==
    LET hits == {i \in 1..Len(clients) : clients[i].api_key = api_key}
    IN  IF hits = {} THEN NoClient
        ELSE clients[CHOOSE i \in hits : \A j \in hits : j <= i]

\* What the store reads at a lookup: JSONClientStore._load (the registry file
\* as it is, no records once the file is gone, an exception when it cannot be
\* opened or parsed) and DynamoDBClientStore._query_by_key (the table's items,
\* or the exception of a failed query)
StoreRead(st) ==
    CASE st.backend = "ok" -> [raises |-> FALSE, clients |-> RegistryFile]
      [] st.backend = "removed" -> [raises |-> FALSE, clients |-> <<>>]
      [] OTHER -> [raises |-> TRUE, clients |-> <<>>]

\* Variant: no store is ever configured
NoStoreConfigured(st) == [configured |-> FALSE, raises |-> FALSE, clients |-> <<>>]

\* factory.get_client_store: the store, or none (configured = FALSE) when no
\* store is configured (legacy mode)
get_client_store(st) ==
    IF st.client_store \in {"json", "dynamodb"}
    THEN [configured |-> TRUE, raises |-> StoreRead(st).raises,
          clients |-> StoreRead(st).clients]
    ELSE [configured |-> FALSE, raises |-> FALSE, clients |-> <<>>]

LegacyPrefix == <<"l", "e", "g", "a", "c", "y", "-">>

\* client_id=f"legacy-{valid_key[:8]}"
LegacyId(valid_key) == LegacyPrefix \o SubSeq(valid_key, 1, Min(8, Len(valid_key)))

\* Variant: a legacy branch that does not compare the presented key
LegacyWithoutCompare(api_key) ==
    ClientConfig(LegacyId(api_keys_list[1]), api_keys_list[1], "openai", GlobalRpm,
                 {}, UPSTREAM_API_KEY, "", "active")

\* Variant: the synthesized record falls back to no upstream key
LegacyClientWithoutUpstreamKey(valid_key) ==
    ClientConfig(LegacyId(valid_key), valid_key, "openai", GlobalRpm,
                 {}, "", "", "active")

\* The ClientConfig synthesized for a legacy key
LegacyClient(valid_key) ==
    ClientConfig(LegacyId(valid_key), valid_key, "openai", GlobalRpm,
                 {}, UPSTREAM_API_KEY, "", "active")

\* The legacy branch of verify_api_key: first entry of api_keys_list equal to
\* the presented key
LegacyMatch(api_key) ==
    LET hits == {i \in 1..Len(api_keys_list) : api_keys_list[i] = api_key}
    IN  IF hits = {} THEN NoClient
        ELSE LegacyClient(api_keys_list[CHOOSE i \in hits : \A j \in hits : i <= j])

\* verify_api_key: status 0 means authenticated (client is set); otherwise the
\* HTTPException raised, or 500 for an exception of the store
verify_api_key(st, api_key) ==
    IF api_key = NoKey
    THEN [status |-> 401, detail |-> "Missing API key", client |-> NoClient]
    ELSE LET store == get_client_store(st)
             found == IF store.configured
                      THEN get_by_api_key(store.clients, api_key)
                      ELSE NoClient
         IN  IF store.raises
             THEN [status |-> 500, detail |-> "Internal Server Error", client |-> NoClient]
             ELSE IF found # NoClient
             THEN IF found.status = "suspended"
                  THEN [status |-> 403, detail |-> "Client suspended", client |-> NoClient]
                  ELSE [status |-> 0, detail |-> "", client |-> found]
             ELSE LET legacy == LegacyMatch(api_key)
                  IN  IF legacy # NoClient
                      THEN [status |-> 0, detail |-> "", client |-> legacy]
                      ELSE [status |-> 403, detail |-> "Invalid API key", client |-> NoClient]

\* Every client id a window can be keyed by
ClientIds ==
    {RegistryFile[i].client_id : i \in 1..Len(RegistryFile)}
        \cup {LegacyId(api_keys_list[i]) : i \in 1..Len(api_keys_list)}

(***************************************************************************)
(* Rate limiter                                                            *)
(***************************************************************************)

RateLimitResult(allowed, limit, remaining, reset_seconds) ==
    [allowed |-> allowed, limit |-> limit, remaining |-> remaining,
     reset_seconds |-> reset_seconds]

NoRateResult == RateLimitResult(FALSE, 0, 0, 0)

\* Variant: the entry that is exactly one window old is dropped too
RECURSIVE PruneInclusive(_, _)
PruneInclusive(window, window_start) ==
    IF window # <<>> /\ Head(window) <= window_start
    THEN PruneInclusive(Tail(window), window_start)
    ELSE window

\* while window and window[0] < window_start: window.popleft()
RECURSIVE Prune(_, _)
Prune(window, window_start) ==
    IF window # <<>> /\ Head(window) < window_start
    THEN Prune(Tail(window), window_start)
    ELSE window

\* Variant: a limit test that lets one more check through
LimitExceeded(window, limit) == Len(window) > limit

\* if len(window) >= limit  (the check is denied)
LimitReached(window, limit) == Len(window) >= limit

\* The denied result: reset = window[0] + WINDOW_SECONDS - now
DeniedResult(window, limit, t) ==
    RateLimitResult(FALSE, limit, 0, Head(window) + WINDOW_SECONDS - t)

\* Variant: remaining computed as if the append had not happened
AllowedResultBeforeAppend(window, limit, t) ==
    RateLimitResult(TRUE, limit, Max(0, limit - (Len(window) - 1)),
                    Head(window) + WINDOW_SECONDS - t)

\* The allowed result, computed on the window after the append
AllowedResult(window, limit, t) ==
    RateLimitResult(TRUE, limit, Max(0, limit - Len(window)),
                    IF window # <<>> THEN Head(window) + WINDOW_SECONDS - t
                    ELSE WINDOW_SECONDS)

\* Variant: an allowed check that does not record its timestamp
CheckWithoutRecord(window, limit, t) ==
    LET pruned == Prune(window, t - WINDOW_SECONDS)
    IN  IF LimitReached(pruned, limit)
        THEN [window |-> pruned, result |-> DeniedResult(pruned, limit, t)]
        ELSE [window |-> pruned,
              result |-> AllowedResult(Append(pruned, t), limit, t)]

\* check_rate_limit as a whole: the window it leaves and the result
check_rate_limit(window, limit, t) ==
    LET pruned == Prune(window, t - WINDOW_SECONDS)
    IN  IF LimitReached(pruned, limit)
        THEN [window |-> pruned, result |-> DeniedResult(pruned, limit, t)]
        ELSE [window |-> Append(pruned, t),
              result |-> AllowedResult(Append(pruned, t), limit, t)]

\* int(rate_result.reset_seconds): whole seconds, as the headers carry them
IntSeconds(tenths) == tenths \div 10

(***************************************************************************)
(* Request bodies.  A text is a sequence of tokens; a token is a piece of  *)
(* text one scanner pattern matches as a whole, or plain text.  A message *)
(* content is a text (kind "str", field content) or a list of parts (kind  *)
(* "list", field parts).                                                   *)
(***************************************************************************)
Msg(role, content) ==
    [role |-> role, kind |-> "str", content |-> content, parts |-> <<>>]

\* A message whose content is a list of parts
PartsMsg(role, parts) ==
    [role |-> role, kind |-> "list", content |-> <<>>, parts |-> parts]
TextPart(text) == [type |-> "text", text |-> text]
ImagePart == [type |-> "image_url", text |-> <<>>]

MessageLists ==
    { << Msg("user", <<"hi">>) >>,
      << Msg("user", <<"you are now">>) >>,
      << Msg("user", <<"ignore previous instructions", "you are now">>) >>,
      << Msg("user", <<"my email is", "user@example.com">>) >>,
      << Msg("user", <<"jailbreak", "123-45-6789">>) >> }

\* The request bodies: every message list with a model field, and a body
\* without one
Bodies ==
    [model : Models \ {NoModel}, messages : MessageLists, stream : BOOLEAN]
        \cup [model : {NoModel}, messages : { << Msg("user", <<"hi">>) >> },
              stream : BOOLEAN]

NoBody == [model |-> NoModel, messages |-> <<>>, stream |-> FALSE]

\* Variant: the model field without a placeholder for its absence
RawModel(body) == body.model

\* model = body.get("model", "unknown")
RequestedModel(body) == IF body.model = NoModel THEN "unknown" ELSE body.model

\* "\n".join(parts)
RECURSIVE JoinLines(_)
JoinLines(parts) ==
    IF parts = <<>> THEN <<>>
    ELSE IF Len(parts) = 1 THEN Head(parts)
    ELSE Head(parts) \o <<"\n">> \o JoinLines(Tail(parts))

\* The texts one message contributes to `parts`: its string content, or the
\* text of each of its parts of type "text"
MessageTexts(msg) ==
    IF msg.kind = "str" THEN << msg.content >>
    ELSE LET texts == SelectSeq(msg.parts, LAMBDA part : part.type = "text")
         IN  [i \in 1..Len(texts) |-> texts[i].text]

RECURSIVE PromptParts(_)
PromptParts(messages) ==
    IF messages = <<>> THEN <<>>
    ELSE MessageTexts(Head(messages)) \o PromptParts(Tail(messages))

\* _extract_prompt_content: the texts of every message, newline-joined
_extract_prompt_content(body) == JoinLines(PromptParts(body.messages))

\* _replace_prompt_content: the last user-role message gets `redacted`
_replace_prompt_content(body, redacted) ==
    LET users == {i \in 1..Len(body.messages) : body.messages[i].role = "user"}
    IN  IF users = {} THEN body
        ELSE LET last == CHOOSE i \in users : \A j \in users : j <= i
             IN  [body EXCEPT !.messages[last] = Msg(@.role, redacted)]

\* content.strip() is empty
IsBlank(content) == \A i \in 1..Len(content) : content[i] = "\n"

(***************************************************************************)
(* Injection scanner (scores in hundredths)                                *)
(***************************************************************************)
\* _PATTERNS: weight of the pattern a token matches, 0 when none does
InjectionWeight(tok) ==
    CASE tok = "ignore previous instructions" -> 50
      [] tok = "you are now" -> 40
      [] tok = "jailbreak" -> 70
      [] OTHER -> 0

InjectionCategory(tok) ==
    CASE tok = "ignore previous instructions" -> "instruction_override"
      [] tok = "you are now" -> "role_manipulation"
      [] tok = "jailbreak" -> "role_manipulation"
      [] OTHER -> ""

RECURSIVE TotalScore(_)
TotalScore(content) ==
    IF content = <<>> THEN 0
    ELSE InjectionWeight(Head(content)) + TotalScore(Tail(content))

ScanResult(allowed, risk_score, categories) ==
    [allowed |-> allowed, risk_score |-> risk_score, matched_categories |-> categories]

NoScanResult == ScanResult(FALSE, 0, {})

\* Variant: a scanner that allows every prompt
ScanAllowsAll(content) == ScanResult(TRUE, 0, {})

\* scan_prompt
scan_prompt(content) ==
    IF IsBlank(content) THEN ScanResult(TRUE, 0, {})
    ELSE LET total_score == TotalScore(content)
             matched == {InjectionCategory(content[i]) : i \in 1..Len(content)} \ {""}
         IN  ScanResult(total_score < INJECTION_THRESHOLD, Min(total_score, 100), matched)

(***************************************************************************)
(* PII scanner                                                             *)
(***************************************************************************)
\* _PII_PATTERNS in table order
PIITypes == << "SSN", "CREDIT_CARD", "EMAIL", "PHONE", "IP_ADDRESS" >>

\* The pattern that matches a token as a whole ("" when none); a CREDIT_CARD
\* match counts only when _luhn_check passes. "x123-45-6789" is no SSN match:
\* the pattern asks for a word boundary before the first digit.
PIIType(tok) ==
    CASE tok = "123-45-6789" -> "SSN"
      [] tok = "4111111111111111" -> "CREDIT_CARD"
      [] tok = "user@example.com" -> "EMAIL"
      [] tok = "user@10.0.0.1.com" -> "EMAIL"
      [] tok = "555-123-4567" -> "PHONE"
      [] tok = "10.0.0.1" -> "IP_ADDRESS"
      [] OTHER -> ""

Placeholder(pii_type) ==
    CASE pii_type = "SSN" -> "[REDACTED_SSN]"
      [] pii_type = "CREDIT_CARD" -> "[REDACTED_CC]"
      [] pii_type = "EMAIL" -> "[REDACTED_EMAIL]"
      [] pii_type = "PHONE" -> "[REDACTED_PHONE]"
      [] pii_type = "IP_ADDRESS" -> "[REDACTED_IP]"

None == [some |-> FALSE, text |-> <<>>]
Some(text) == [some |-> TRUE, text |-> text]

PIIResult(clean, detections, redacted_content, detection_count) ==
    [clean |-> clean, detections |-> detections,
     redacted_content |-> redacted_content, detection_count |-> detection_count]

NoPIIResult == PIIResult(FALSE, {}, None, -1)

\* The matches of a pattern inside a token that another pattern matches as a
\* whole: the IP_ADDRESS pattern matches the host of "user@10.0.0.1.com"
InnerMatches(tok, pii_type) ==
    IF tok = "user@10.0.0.1.com" /\ pii_type = "IP_ADDRESS"
    THEN << "10.0.0.1" >>
    ELSE <<>>

\* pattern.finditer over one token: the matched texts
TokenMatches(tok, pii_type) ==
    IF PIIType(tok) = pii_type THEN << tok >> ELSE InnerMatches(tok, pii_type)

\* pattern.finditer(content): the matched texts in text order
RECURSIVE FindIter(_, _)
FindIter(content, pii_type) ==
    IF content = <<>> THEN <<>>
    ELSE TokenMatches(Head(content), pii_type) \o FindIter(Tail(content), pii_type)

\* The counted matches, pattern by pattern, each pattern's in text order
RECURSIVE PIIMatches(_, _)
PIIMatches(content, p) ==
    IF p > Len(PIITypes) THEN <<>>
    ELSE FindIter(content, PIITypes[p]) \o PIIMatches(content, p + 1)

\* matched_text in tok: the token is the text, or the text is a part of it
Occurs(tok, matched_text) ==
    \/ tok = matched_text
    \/ tok = "x123-45-6789" /\ matched_text = "123-45-6789"
    \/ tok = "user@10.0.0.1.com" /\ matched_text = "10.0.0.1"

\* tok.replace(matched_text, placeholder, 1) for a token the text occurs in
ReplaceInToken(tok, matched_text, placeholder) ==
    CASE tok = matched_text -> placeholder
      [] tok = "x123-45-6789" -> "x[REDACTED_SSN]"
      [] tok = "user@10.0.0.1.com" -> "user@[REDACTED_IP].com"

\* redacted.replace(matched_text, placeholder, 1)
ReplaceFirst(text, matched_text, placeholder) ==
    LET at == {i \in 1..Len(text) : Occurs(text[i], matched_text)}
    IN  IF at = {} THEN text
        ELSE LET first == CHOOSE i \in at : \A j \in at : i <= j
             IN  [text EXCEPT ![first] = ReplaceInToken(@, matched_text, placeholder)]

RECURSIVE Redact(_, _)
Redact(redacted, matches) ==
    IF matches = <<>> THEN redacted
    ELSE Redact(ReplaceFirst(redacted, Head(matches), Placeholder(PIIType(Head(matches)))),
                Tail(matches))

\* settings.pii_action.lower()
Lower(action) ==
    CASE action = "BLOCK" -> "block"
      [] OTHER -> action

\* scan_for_pii under the configured PII_ACTION
scan_for_pii(content, pii_action) ==
    IF IsBlank(content) THEN PIIResult(TRUE, {}, None, 0)
    ELSE LET matches == PIIMatches(content, 1)
             detections == {PIIType(matches[i]) : i \in 1..Len(matches)}
             action == Lower(pii_action)
         IN  IF detections = {} THEN PIIResult(TRUE, {}, None, 0)
             ELSE IF action = "block"
                  THEN PIIResult(FALSE, detections, None, Len(matches))
             ELSE IF action = "redact"
                  THEN PIIResult(FALSE, detections, Some(Redact(content, matches)),
                                 Len(matches))
             ELSE PIIResult(TRUE, detections, None, Len(matches))

(***************************************************************************)
(* Responses                                                               *)
(***************************************************************************)
NoHeaders == [h \in {} |-> 0]

\* A chat completion body with one choice, and an upstream error body
ChatBody(content) == [choices |-> << [message |-> [content |-> content]] >>]
ErrorBody == [choices |-> <<>>]

NoUpstreamBody == [some |-> FALSE, body |-> ErrorBody]

\* JSONFormatter.format: a record of the audit log carries the message and
\* the request id of the context it was logged in
AuditRecord(message, request_id) == [message |-> message, request_id |-> request_id]

\* A response of the gateway: status, the key of a one-entry JSON body and its
\* message (or, for a proxied answer, the upstream body) and the headers
Response(status, body_key, message, headers) ==
    [status |-> status, body_key |-> body_key, message |-> message,
     upstream |-> NoUpstreamBody, headers |-> headers]

\* JSONResponse(status_code=result.status_code, content=result.body, headers)
ProxiedResponse(status, body, headers) ==
    [Response(status, "upstream", "", headers)
        EXCEPT !.upstream = [some |-> TRUE, body |-> body]]

NoResp == Response(0, "", "", NoHeaders)

\* raise HTTPException(status_code, detail): answered by the framework's
\* default handler as {"detail": ...}
HTTPException(status_code, detail) == Response(status_code, "detail", detail, NoHeaders)

\* The answer to an exception no handler catches: 500 with a plain text body
ServerError == Response(500, "text", "Internal Server Error", NoHeaders)

\* JSONResponse(status_code, content={"error": ...}, headers)
JSONError(status_code, message, headers) == Response(status_code, "error", message, headers)

\* The headers of the 429 response
ThrottleHeaders(rate_result) ==
    ("Retry-After" :> IntSeconds(rate_result.reset_seconds))
        @@ ("X-RateLimit-Limit" :> rate_result.limit)
        @@ ("X-RateLimit-Remaining" :> 0)
        @@ ("X-RateLimit-Reset" :> IntSeconds(rate_result.reset_seconds))

\* Variant: the proxied response reports the limit as the remaining count
SuccessHeadersWithLimit(rate_result, rid) ==
    ("X-RateLimit-Limit" :> rate_result.limit)
        @@ ("X-RateLimit-Remaining" :> rate_result.limit)
        @@ ("X-RateLimit-Reset" :> IntSeconds(rate_result.reset_seconds))
        @@ ("X-Request-Id" :> rid)

\* The headers of a proxied response
SuccessHeaders(rate_result, rid) ==
    ("X-RateLimit-Limit" :> rate_result.limit)
        @@ ("X-RateLimit-Remaining" :> rate_result.remaining)
        @@ ("X-RateLimit-Reset" :> IntSeconds(rate_result.reset_seconds))
        @@ ("X-Request-Id" :> rid)


(***************************************************************************)
(* Dispatch and the response side                                          *)
(***************************************************************************)
ResponseScanResult(injection, pii, blocked) ==
    [injection |-> injection, pii |-> pii, blocked |-> blocked]

\* scan_response
scan_response(content, st) ==
    LET injection_result == scan_prompt(content)
        pii_result == scan_for_pii(content, st.pii_action)
    IN  ResponseScanResult(injection_result, pii_result,
                           /\ st.response_pii_action = "block"
                           /\ ~pii_result.clean
                           /\ pii_result.detection_count > 0)

ProviderResponse(status_code, body) ==
    [raised |-> 0, status_code |-> status_code, body |-> body]

\* The provider raised HTTPException(status_code)
ProviderRaises(status_code) ==
    [raised |-> status_code, status_code |-> 0, body |-> ErrorBody]

NoReply == ProviderResponse(0, ErrorBody)

_extract_response_content(body) ==
    IF body.choices = <<>> THEN <<>> ELSE body.choices[1].message.content

\* The provider raised an exception that is no HTTPException
ProviderCrashes ==
    [raised |-> -1, status_code |-> 0, body |-> ErrorBody]

\* What the upstream does with one unary call: it answers with a status and
\* a JSON body (for Bedrock: the Converse output), it answers with a body
\* that is no JSON, or the client library raises the named error
HttpAnswer(status_code, body) ==
    [kind |-> "response", status_code |-> status_code, body |-> body, error |-> ""]
NotJson(status_code) ==
    [kind |-> "not_json", status_code |-> status_code, body |-> ErrorBody, error |-> ""]
UpstreamError(error) ==
    [kind |-> "error", status_code |-> 0, body |-> ErrorBody, error |-> error]

NoOutcome ==
    [kind |-> "none", status_code |-> 0, body |-> ErrorBody, error |-> ""]

\* Called(reply, calls): what a provider method returns or raises, and the
\* number of calls it made to the upstream
Called(reply, calls) == [reply |-> reply, calls |-> calls]

\* OpenAIProvider.chat_completion
OpenAIChatCompletion(outcome) ==
    CASE outcome.kind = "response" ->
            Called(ProviderResponse(outcome.status_code, outcome.body), 1)
      [] outcome.kind = "not_json" -> Called(ProviderCrashes, 1)   \* response.json() raises
      [] outcome.error = "ConnectError" -> Called(ProviderRaises(502), 1)
      [] outcome.error = "TimeoutException" -> Called(ProviderRaises(504), 1)
      [] OTHER -> Called(ProviderRaises(502), 1)                     \* httpx.HTTPError

\* _handle_bedrock_error
_handle_bedrock_error(error_code) ==
    CASE error_code = "ThrottlingException" -> 429
      [] error_code = "ValidationException" -> 400
      [] error_code = "ModelNotReadyException" -> 503
      [] error_code = "AccessDeniedException" -> 403
      [] OTHER -> 502

\* _translate_response: the text blocks of the Converse output joined into
\* the content of one choice
_translate_response(output) == ChatBody(_extract_response_content(output))

\* BedrockProvider.chat_completion
BedrockChatCompletion(model_id, outcome) ==
    IF model_id = ""
    THEN Called(ProviderRaises(400), 0)
    ELSE IF outcome.kind = "response"
    THEN Called(ProviderResponse(200, _translate_response(outcome.body)), 1)
    ELSE Called(ProviderRaises(_handle_bedrock_error(outcome.error)), 1)

\* forward_to_provider: get_provider(client.provider).chat_completion(...)
forward_to_provider(client, outcome) ==
    IF client.provider = "bedrock"
    THEN BedrockChatCompletion(client.bedrock_model_id, outcome)
    ELSE OpenAIChatCompletion(outcome)

Answers ==
    { HttpAnswer(200, ChatBody(<<"Hello!">>)),
      HttpAnswer(200, ChatBody(<<"write to", "user@example.com">>)),
      HttpAnswer(200, ChatBody(<<"jailbreak", "done">>)) }

\* providers/registry.py: the names get_provider knows
Providers == {"openai", "bedrock"}

\* The upstream outcomes of a unary call, by provider
UpstreamOutcomes ==
    [provider \in Providers |->
        IF provider = "bedrock"
        THEN Answers \cup {UpstreamError("InternalServerException")}
        ELSE Answers \cup {HttpAnswer(500, ErrorBody), UpstreamError("ConnectError")}]

\* The upstream outcomes of a unary call, every failure the providers tell
\* apart included
UpstreamFailures ==
    [provider \in Providers |->
        IF provider = "bedrock"
        THEN { HttpAnswer(200, ChatBody(<<"Hello!">>)),
               UpstreamError("ThrottlingException"), UpstreamError("ValidationException"),
               UpstreamError("ModelNotReadyException"),
               UpstreamError("AccessDeniedException"),
               UpstreamError("InternalServerException") }
        ELSE { HttpAnswer(200, ChatBody(<<"Hello!">>)), HttpAnswer(500, ErrorBody),
               NotJson(502),
               UpstreamError("ConnectError"), UpstreamError("TimeoutException"),
               UpstreamError("ReadError") }]

StreamChunk(data, is_done, text_delta) ==
    [raises |-> FALSE, data |-> data, is_done |-> is_done, text_delta |-> text_delta]

DoneChunk == StreamChunk("[DONE]", TRUE, <<>>)
StreamRaises == [raises |-> TRUE, data |-> "", is_done |-> FALSE, text_delta |-> <<>>]

\* What the upstream does with one streaming call: the call fails (error),
\* it answers with a status other than 200, or it sends items and then
\* closes the stream, cleanly or with a transport error (broken). An item
\* is a `data:` line of the OpenAI stream or an event of the Bedrock stream.
Item(payload, content) == [payload |-> payload, content |-> content]
UpstreamStream(items, broken) ==
    [error |-> "", status_code |-> 200, items |-> items, broken |-> broken]
UpstreamStreamError(error) ==
    [error |-> error, status_code |-> 0, items |-> <<>>, broken |-> FALSE]
UpstreamStreamStatus(status_code) ==
    [error |-> "", status_code |-> status_code, items |-> <<>>, broken |-> FALSE]

NoUpstreamStream ==
    [error |-> "<none>", status_code |-> 0, items |-> <<>>, broken |-> FALSE]

\* OpenAIProvider.chat_completion_stream, the loop over response.aiter_lines()
RECURSIVE OpenAILines(_, _)
OpenAILines(items, broken) ==
    IF items = <<>>
    THEN IF broken THEN << StreamRaises >> ELSE <<>>
    ELSE IF Head(items).payload = ""              \* a line without `data:`
    THEN OpenAILines(Tail(items), broken)
    ELSE IF Head(items).payload = "[DONE]"
    THEN << DoneChunk >>
    ELSE << StreamChunk(Head(items).payload, FALSE, Head(items).content) >>
         \o OpenAILines(Tail(items), broken)

\* OpenAIProvider.chat_completion_stream
OpenAIStream(upstream) ==
    IF upstream.error # "" \/ upstream.status_code # 200
    THEN Called(<< StreamRaises >>, 1)
    ELSE Called(OpenAILines(upstream.items, upstream.broken), 1)

\* The data of a chunk translated from a Bedrock event
BedrockChunkData == "chat.completion.chunk"

\* BedrockProvider.chat_completion_stream, the loop over response["stream"]
RECURSIVE BedrockEvents(_, _)
BedrockEvents(items, broken) ==
    IF items = <<>>
    THEN IF broken THEN << StreamRaises >> ELSE <<>>
    ELSE IF Head(items).payload = "contentBlockDelta"
    THEN << StreamChunk(BedrockChunkData, FALSE, Head(items).content) >>
         \o BedrockEvents(Tail(items), broken)
    ELSE IF Head(items).payload = "messageStop"
    THEN << StreamChunk(BedrockChunkData, FALSE, <<>>), DoneChunk >>
    ELSE BedrockEvents(Tail(items), broken)

\* BedrockProvider.chat_completion_stream
BedrockStream(model_id, upstream) ==
    IF model_id = ""
    THEN Called(<< StreamRaises >>, 0)
    ELSE IF upstream.error # ""
    THEN Called(<< StreamRaises >>, 1)
    ELSE Called(BedrockEvents(upstream.items, upstream.broken), 1)

\* stream_from_provider: get_provider(client.provider).chat_completion_stream(...)
stream_from_provider(client, upstream) ==
    IF client.provider = "bedrock"
    THEN BedrockStream(client.bedrock_model_id, upstream)
    ELSE OpenAIStream(upstream)

\* The upstream outcomes of a streaming call, by provider
UpstreamStreams ==
    [provider \in Providers |->
        IF provider = "bedrock"
        THEN { UpstreamStream(<< Item("contentBlockDelta", <<"Hello!">>),
                                 Item("messageStop", <<>>) >>, FALSE),
               UpstreamStream(<< Item("contentBlockDelta", <<"write to">>),
                                 Item("contentBlockDelta", <<"user@example.com">>),
                                 Item("messageStop", <<>>), Item("metadata", <<>>) >>, FALSE),
               UpstreamStream(<< Item("contentBlockDelta", <<"Hello!">>) >>, TRUE),
               UpstreamStreamError("ThrottlingException"),
               UpstreamStream(<< Item("messageStart", <<>>),
                                 Item("contentBlockDelta", <<"Hello!">>) >>, FALSE) }
        ELSE { UpstreamStream(<< Item("c1", <<"Hello!">>), Item("", <<>>), Item("fin", <<>>),
                                 Item("[DONE]", <<>>) >>, FALSE),
               UpstreamStream(<< Item("c1", <<"write to">>), Item("c2", <<"user@example.com">>),
                                 Item("[DONE]", <<>>) >>, FALSE),
               UpstreamStream(<< Item("c1", <<"Hello!">>) >>, TRUE),
               UpstreamStreamStatus(429),
               UpstreamStream(<< Item("c1", <<"Hello!">>) >>, FALSE) }]

\* Variant: every forwarded chunk is re-encoded to the same payload
SseDataReencoded(data) == <<"data", "chunk">>

\* yield f"data: {chunk.data}\n\n"
SseData(data) == <<"data", data>>
SseError == <<"data", "{error}">>

\* Variant: only the latest delta is kept
AccumulateLatest(accumulated_text, chunk) ==
    IF chunk.text_delta = <<>> THEN accumulated_text ELSE chunk.text_delta

\* if chunk.text_delta: accumulated_text.append(chunk.text_delta)
Accumulate(accumulated_text, chunk) == accumulated_text \o chunk.text_delta

\* Variant: an exception of the provider stream ends the response silently
StreamFailureSilent == [events |-> <<>>, audit |-> <<>>, scanned |-> None]

\* except Exception: one error event, nothing else
StreamFailure == [events |-> << SseError >>, audit |-> <<>>, scanned |-> None]

\* _handle_streaming.event_generator over the chunks the provider yields:
\* the events sent, the audit records written and the text scanned
RECURSIVE event_generator(_, _, _)
event_generator(chunks, accumulated_text, st) ==
    IF chunks = <<>>
    THEN [events |-> <<>>, audit |-> <<>>, scanned |-> None]
    ELSE LET chunk == Head(chunks)
             text == Accumulate(accumulated_text, chunk)
         IN  IF chunk.raises
             THEN StreamFailure
             ELSE IF chunk.is_done
             THEN [events |-> IF scan_response(text, st).blocked
                              THEN << SseError >>
                              ELSE << SseData("[DONE]") >>,
                   audit |-> << "Stream completed" >>,
                   scanned |-> Some(text)]
             ELSE LET rest == event_generator(Tail(chunks), text, st)
                  IN  [rest EXCEPT !.events = << SseData(chunk.data) >> \o @]

StreamHeaders(rate_result, rid) ==
    SuccessHeaders(rate_result, rid) @@ ("Cache-Control" :> 0)



(***************************************************************************)
(* State                                                                   *)
(***************************************************************************)
IdleReq ==
    [pc |-> "idle", key |-> NoKey, client |-> NoClient, rid |-> 0, body |-> NoBody,
     rate_result |-> NoRateResult,
     injection_result |-> NoScanResult, pii_result |-> NoPIIResult,
     received |-> NoBody, sent |-> NoBody, provider_calls |-> 0, upstream_calls |-> 0,
     outcome |-> NoOutcome, upstream |-> NoUpstreamStream,
     stages |-> <<>>, audit |-> <<>>,
     resp |-> NoResp, events |-> <<>>, scanned |-> None, reply |-> NoReply,
     chunks |-> <<>>, k_before |-> 0]

(***************************************************************************)
(* JSONClientStore: the registry file and the loaded records               *)
(***************************************************************************)

MaxMtime == 3                 \* SpecFile: the file is written MaxMtime - 1 times

\* An API key outside ASCII, as a header byte above 0x7f decodes to
KeyUnicode == <<"k", "-", "0xE9">>
NonAscii == {"0xE9"}

\* The contents the operator gives the registry file: the two clients; client
\* A suspended; a second record under client A's key; no clients; and text
\* that is not JSON ("garbage")
FileVersions ==
    [v1 |-> << RegistryFile[1], RegistryFile[2] >>,
     v2 |-> << [RegistryFile[1] EXCEPT !.status = "suspended"], RegistryFile[2] >>,
     v3 |-> << RegistryFile[1], RegistryFile[2],
               [RegistryFile[4] EXCEPT !.api_key = KeyA] >>,
     v4 |-> <<>>,
     garbage |-> <<>>]

FileState(exists, mtime, version) ==
    [exists |-> exists, mtime |-> mtime, version |-> version]
NoFile == FileState(FALSE, 0, "v4")

(***************************************************************************)
(* DynamoDBClientStore: the table and the lookup cache                     *)
(***************************************************************************)

CACHE_TTL == 3000             \* DynamoDBClientStore.CACHE_TTL, in tenths of a second
MaxCacheTicks == 2            \* SpecCache: clock advances
CacheTickSteps == {1, 2999}
CacheKeys == {KeyA}           \* the keys looked up in SpecCache

\* The items the table can hold under an api_key: the client's record, or the
\* record after the operator suspended the client
TableItems(api_key) ==
    {r \in {RegistryFile[1], [RegistryFile[1] EXCEPT !.status = "suspended"],
            RegistryFile[2]} : r.api_key = api_key}

\* A cache entry (config, expires_at); NoEntry when the key is not in _cache
CacheEntry(config, expires_at) == [config |-> config, expires_at |-> expires_at]
NoEntry == CacheEntry(NoClient, -1)

\* DynamoDBClientStore._query_by_key: the first item under the key, or None
_query_by_key(items, api_key) == items[api_key]

IdleLookup ==
    [pc |-> "idle", api_key |-> NoKey, result |-> NoClient, raised |-> FALSE,
     queried |-> FALSE, t0 |-> 0, seen |-> NoEntry,
     compared |-> 0, records |-> <<>>, stat |-> NoFile, before |-> <<>>,
     mtime_before |-> 0]

(***************************************************************************)
(* providers/registry.py: the provider instances                           *)
(***************************************************************************)

MaxInstances == 3             \* SpecRegistry: provider instances created
MaxGets == 4                  \* SpecRegistry: calls of get_provider
MaxCloses == 2                \* SpecRegistry: calls of close_all_providers

ProviderNames == Providers \cup {"fake-provider"}

IdleClosing ==
    [pc |-> "idle", size |-> 0, i |-> 0, calls |-> 0, raised |-> FALSE,
     disturbed |-> FALSE, registered |-> {}]

InitStores ==
    /\ _providers = <<>>
    /\ instances = [id \in 1..MaxInstances |-> [name |-> "", state |-> "none"]]
    /\ closing = IdleClosing
    /\ gets = <<>>
    /\ file = FileState(TRUE, 1, "v1")
    /\ _clients = FileVersions["v1"]
    /\ _last_mtime = 1
    /\ _cache = [k \in CacheKeys |-> NoEntry]
    /\ table = [k \in CacheKeys |-> NoClient]
    /\ lookups = [t \in Tasks |-> IdleLookup]
    /\ queries = [k \in CacheKeys |-> [last |-> "never", missed |-> FALSE]]
    /\ overlaps = {}

IdleTask ==
    [pc |-> "idle", client_id |-> <<>>, limit |-> 0, rl_now |-> 0,
     result |-> NoRateResult, k_before |-> 0, after_reset |-> FALSE]

\* Number of admitted checks of a history with a timestamp in [t - window, t]
InWindow(history, t) ==
    Cardinality({i \in 1..Len(history) :
                    history[i] >= t - WINDOW_SECONDS /\ history[i] <= t})

PIIActions == {"redact", "block", "log_only", "BLOCK"}

\* os.environ.get("AWS_LAMBDA_FUNCTION_NAME"): None when the variable is not
\* in the environment, else its value
NoEnv == "<unset>"
LambdaEnv == {NoEnv, "", "my-gateway-lambda"}

\* The truth value Python gives to None and to a string
Truthy(value) == value # NoEnv /\ value # ""

\* The configurations of a deployment: config/settings.py and the environment.
\* Every pair of PII actions off Lambda; on Lambda and without a client store,
\* the response action and (without a store) the PII action stay at their
\* defaults.
Deployments ==
    { st \in [pii_action : PIIActions,
              response_pii_action : {"log_only", "block"},
              aws_lambda : {NoEnv, "my-gateway-lambda"},
              client_store : {"json", "none"},
              backend : {"ok"}] :
        /\ st.aws_lambda # NoEnv =>
              (st.pii_action \in {"redact", "block"}
               /\ st.response_pii_action = "log_only" /\ st.client_store = "json")
        /\ st.client_store = "none" =>
              (st.pii_action = "redact" /\ st.response_pii_action = "log_only") }

InitWith(deployments) ==
    /\ settings \in deployments
    /\ now = 0
    /\ ticks = 0
    /\ client_windows = [c \in ClientIds |-> <<>>]
    /\ req = IdleReq
    /\ arrivals = 0
    /\ task = [t \in Tasks |-> IdleTask]
    /\ running = NoTask
    /\ checks = 0
    /\ resets = <<>>
    /\ admitted = [c \in ClientIds |-> <<>>]
    /\ fresh = {}
    /\ InitStores

Init == InitWith(Deployments)

limiterVars == << task, running, checks, resets >>

\* The settings as config/settings.py defaults them; the limiter reads none
DefaultSettings ==
    [pii_action |-> "redact", response_pii_action |-> "log_only",
     aws_lambda |-> NoEnv, client_store |-> "json", backend |-> "ok"]

InitLimiter == Init /\ settings = DefaultSettings

(***************************************************************************)
(* The pipeline: POST /v1/chat/completions                                 *)
(***************************************************************************)

\* A request arrives with one of the keys
ArriveWith(keys) ==
    /\ req.pc = "idle"
    /\ arrivals < MaxRequests
    /\ \E key \in keys :
          req' = [req EXCEPT !.pc = "auth", !.key = key]
    /\ arrivals' = arrivals + 1
    /\ UNCHANGED << storeVars, settings, now, ticks, client_windows, admitted, fresh, limiterVars >>

\* A request arrives
Arrive == ArriveWith(Keys \cup {NoKey})

\* Depends(verify_api_key), then the first lines of chat_completions up to
\* `await request.json()`
Authenticate ==
    /\ req.pc = "auth"
    /\ LET auth == verify_api_key(settings, req.key)
       IN  IF auth.status # 0
           THEN req' = [req EXCEPT !.pc = "done",
                                   !.stages = Append(@, "auth"),
                                   !.resp = IF auth.status = 500
                                            THEN ServerError
                                            ELSE HTTPException(auth.status, auth.detail)]
           ELSE req' = [req EXCEPT !.pc = "body",
                                   !.stages = Append(@, "auth"),
                                   !.client = auth.client,
                                   !.rid = arrivals]
    /\ UNCHANGED << storeVars, settings, now, ticks, client_windows, arrivals, admitted, fresh,
                    limiterVars >>

\* body = await request.json()
ParseBody ==
    /\ req.pc = "body"
    /\ \E body \in Bodies :
          req' = [req EXCEPT !.pc = "rate_limit", !.body = body, !.received = body]
    /\ UNCHANGED << storeVars, settings, now, ticks, client_windows, arrivals, admitted, fresh,
                    limiterVars >>

\* 1. Rate limiting (per-client): the check and the 429 answer
RateLimitStage ==
    /\ req.pc = "rate_limit"
    /\ LET client_id == req.client.client_id
           checked == check_rate_limit(client_windows[client_id],
                                       req.client.rate_limit_rpm, now)
           rate_result == checked.result
       IN  /\ client_windows' = [client_windows EXCEPT ![client_id] = checked.window]
           /\ admitted' = IF rate_result.allowed
                          THEN [admitted EXCEPT ![client_id] = Append(@, now)]
                          ELSE admitted
           /\ IF ~rate_result.allowed
              THEN req' = [req EXCEPT
                             !.pc = "done",
                             !.stages = Append(@, "rate_limit"),
                             !.rate_result = rate_result,
                             !.k_before = InWindow(admitted[client_id], now),
                             !.audit = Append(@, AuditRecord("Rate limit exceeded", req.rid)),
                             !.resp = JSONError(429, "Rate limit exceeded",
                                                ThrottleHeaders(rate_result))]
              ELSE req' = [req EXCEPT
                             !.pc = "allowlist",
                             !.stages = Append(@, "rate_limit"),
                             !.rate_result = rate_result,
                             !.k_before = InWindow(admitted[client_id], now)]
    /\ UNCHANGED << storeVars, settings, now, ticks, arrivals, fresh, limiterVars >>

\* Variant: a pipeline without the allowlist test
ModelNeverRejected(client, model) == FALSE

\* client.model_allowlist and model not in client.model_allowlist
ModelRejected(client, model) ==
    client.model_allowlist # {} /\ model \notin client.model_allowlist

\* f"Model '{model}' not allowed for this client"
ModelNotAllowed(model) == << "Model '", model, "' not allowed for this client" >>

\* 2. Model allowlist check
AllowlistStage ==
    /\ req.pc = "allowlist"
    /\ IF ModelRejected(req.client, RequestedModel(req.body))
       THEN req' = [req EXCEPT !.pc = "done",
                               !.stages = Append(@, "allowlist"),
                               !.audit = Append(@, AuditRecord("Model not allowed", req.rid)),
                               !.resp = JSONError(403, ModelNotAllowed(RequestedModel(req.body)),
                                                  NoHeaders)]
       ELSE req' = [req EXCEPT !.pc = "injection",
                               !.stages = Append(@, "allowlist")]
    /\ UNCHANGED << storeVars, settings, now, ticks, client_windows, arrivals, admitted, fresh,
                    limiterVars >>

\* 3. Prompt injection scan
InjectionStage ==
    /\ req.pc = "injection"
    /\ LET injection_result == scan_prompt(_extract_prompt_content(req.body))
       IN  IF ~injection_result.allowed
           THEN req' = [req EXCEPT
                          !.pc = "done",
                          !.stages = Append(@, "injection"),
                          !.injection_result = injection_result,
                          !.audit = Append(@, AuditRecord("Prompt injection blocked", req.rid)),
                          !.resp = JSONError(400, "Request blocked by security policy",
                                             NoHeaders)]
           ELSE req' = [req EXCEPT
                          !.pc = "pii",
                          !.stages = Append(@, "injection"),
                          !.injection_result = injection_result]
    /\ UNCHANGED << storeVars, settings, now, ticks, client_windows, arrivals, admitted, fresh,
                    limiterVars >>

\* Variant: a pipeline that never blocks on PII
PIINeverBlocks(pii_result, pii_action) == FALSE

\* The block-mode test of chat_completions on the scanner's result
PIIBlocks(pii_result, pii_action) ==
    /\ ~pii_result.clean
    /\ ~pii_result.redacted_content.some
    /\ pii_result.detection_count > 0
    /\ pii_action = "block"

\* if pii_result.redacted_content: body = _replace_prompt_content(...)
Sanitized(body, pii_result) ==
    IF pii_result.redacted_content.some /\ pii_result.redacted_content.text # <<>>
    THEN _replace_prompt_content(body, pii_result.redacted_content.text)
    ELSE body

\* 4. PII scan: block, or swap in the redacted content
PIIStage ==
    /\ req.pc = "pii"
    /\ LET pii_result == scan_for_pii(_extract_prompt_content(req.body),
                                      settings.pii_action)
       IN  IF PIIBlocks(pii_result, settings.pii_action)
           THEN req' = [req EXCEPT
                          !.pc = "done",
                          !.stages = Append(@, "pii"),
                          !.pii_result = pii_result,
                          !.audit = Append(@, AuditRecord("PII detected - request blocked", req.rid)),
                          !.resp = JSONError(400, "Request contains sensitive data (PII)",
                                             NoHeaders)]
           ELSE req' = [req EXCEPT
                          !.pc = "guard",
                          !.stages = Append(@, "pii"),
                          !.pii_result = pii_result,
                          !.body = Sanitized(req.body, pii_result)]
    /\ UNCHANGED << storeVars, settings, now, ticks, client_windows, arrivals, admitted, fresh,
                    limiterVars >>

\* Variant: on Lambda every request is refused
RefusedOnLambda(is_stream, st) == Truthy(st.aws_lambda)

\* is_stream and os.environ.get("AWS_LAMBDA_FUNCTION_NAME")
StreamingRefused(is_stream, st) == is_stream /\ Truthy(st.aws_lambda)

\* 5. Lambda guard
GuardStage ==
    /\ req.pc = "guard"
    /\ IF StreamingRefused(req.body.stream, settings)
       THEN req' = [req EXCEPT
                      !.pc = "done",
                      !.stages = Append(@, "guard"),
                      !.resp = JSONError(400,
                                  "Streaming is not supported in Lambda deployments",
                                  NoHeaders)]
       ELSE req' = [req EXCEPT !.pc = "dispatch",
                               !.stages = Append(@, "guard")]
    /\ UNCHANGED << storeVars, settings, now, ticks, client_windows, arrivals, admitted, fresh,
                    limiterVars >>

\* The branch of chat_completions: _handle_streaming returns the SSE
\* response at once; otherwise forward_to_provider calls the provider
Dispatch ==
    /\ req.pc = "dispatch"
    /\ IF req.body.stream
       THEN req' = [req EXCEPT
                      !.pc = "streaming",
                      !.stages = Append(@, "dispatch"),
                      !.resp = Response(200, "sse", "",
                                        StreamHeaders(req.rate_result, req.rid))]
       ELSE req' = [req EXCEPT
                      !.pc = "upstream",
                      !.stages = Append(@, "dispatch"),
                      !.sent = req.body,
                      !.provider_calls = @ + 1]
    /\ UNCHANGED << storeVars, settings, now, ticks, client_windows, arrivals, admitted, fresh,
                    limiterVars >>

\* The provider answers the unary call; response scan; audit; emit
UpstreamReturnFrom(outcomes) ==
    /\ req.pc = "upstream"
    /\ \E outcome \in outcomes[req.client.provider] :
          LET called == forward_to_provider(req.client, outcome)
              reply == called.reply
          IN
          IF reply.raised # 0
          THEN req' = [req EXCEPT
                         !.pc = "done",
                         !.upstream_calls = called.calls,
                         !.outcome = IF called.calls = 0 THEN NoOutcome ELSE outcome,
                         !.resp = IF reply.raised = -1
                                  THEN ServerError
                                  ELSE HTTPException(reply.raised, "Upstream error")]
          ELSE LET response_content == _extract_response_content(reply.body)
                   response_scan == scan_response(response_content, settings)
               IN  IF response_scan.blocked
                   THEN req' = [req EXCEPT
                                  !.pc = "done",
                                  !.upstream_calls = called.calls,
                                  !.outcome = IF called.calls = 0 THEN NoOutcome ELSE outcome,
                                  !.stages = Append(@, "response_scan"),
                                  !.reply = reply,
                                  !.scanned = Some(response_content),
                                  !.audit = Append(@, AuditRecord("Response blocked - PII in LLM output", req.rid)),
                                  !.resp = JSONError(400,
                                              "Response blocked by security policy - contains sensitive data",
                                              NoHeaders)]
                   ELSE req' = [req EXCEPT
                                  !.pc = "done",
                                  !.upstream_calls = called.calls,
                                  !.outcome = IF called.calls = 0 THEN NoOutcome ELSE outcome,
                                  !.stages = Append(@, "response_scan"),
                                  !.reply = reply,
                                  !.scanned = Some(response_content),
                                  !.audit = Append(@, AuditRecord("Request proxied", req.rid)),
                                  !.resp = ProxiedResponse(reply.status_code, reply.body,
                                              SuccessHeaders(req.rate_result, req.rid))]
    /\ UNCHANGED << storeVars, settings, now, ticks, client_windows, arrivals, admitted, fresh,
                    limiterVars >>

UpstreamReturn == UpstreamReturnFrom(UpstreamOutcomes)

\* The framework drains event_generator: the provider stream is opened and
\* its chunks are forwarded
StreamBodyFrom(streams) ==
    /\ req.pc = "streaming"
    /\ \E upstream \in streams[req.client.provider] :
          LET called == stream_from_provider(req.client, upstream)
              chunks == called.reply
              out == event_generator(chunks, <<>>, settings)
          IN  req' = [req EXCEPT
                        !.pc = "done",
                        !.sent = req.body,
                        !.provider_calls = @ + 1,
                        !.upstream_calls = called.calls,
                        !.upstream = IF called.calls = 0 THEN NoUpstreamStream ELSE upstream,
                        !.stages = IF out.scanned.some THEN Append(@, "response_scan")
                                   ELSE @,
                        !.chunks = chunks,
                        !.scanned = out.scanned,
                        !.audit = @ \o [i \in 1..Len(out.audit) |->
                                            AuditRecord(out.audit[i], req.rid)],
                        !.events = out.events]
    /\ UNCHANGED << storeVars, settings, now, ticks, client_windows, arrivals, admitted, fresh,
                    limiterVars >>

StreamBody == StreamBodyFrom(UpstreamStreams)

\* The response has been delivered; the next request can be taken up
Complete ==
    /\ req.pc = "done"
    /\ req' = IdleReq
    /\ UNCHANGED << storeVars, settings, now, ticks, client_windows, arrivals, admitted, fresh,
                    limiterVars >>

\* The monotonic clock advances. Only check_rate_limit reads it, so an
\* advance during a request is one before it or after it.
Tick ==
    /\ req.pc = "idle"
    /\ running = NoTask
    /\ ticks < MaxTicks
    /\ arrivals > 0 \/ checks > 0   \* the origin of time.monotonic() is arbitrary:
                                    \* the clock is followed from the first call on
    /\ \E d \in TickSteps : now' = now + d
    /\ ticks' = ticks + 1
    /\ UNCHANGED << storeVars, settings, client_windows, req, arrivals, admitted, fresh,
                    limiterVars >>

Next ==
    \/ Arrive
    \/ Authenticate
    \/ ParseBody
    \/ RateLimitStage
    \/ AllowlistStage
    \/ InjectionStage
    \/ PIIStage
    \/ GuardStage
    \/ Dispatch
    \/ UpstreamReturn
    \/ StreamBody
    \/ Complete
    \/ Tick

Spec == Init /\ [][Next]_vars

(***************************************************************************)
(* The pipeline on conversations: bodies with several messages, with      *)
(* list-valued content, with and without a user-role message               *)
(***************************************************************************)
PromptMessageLists ==
    { << Msg("user", <<"hi">>) >>,
      << Msg("user", <<"my email is", "user@example.com">>) >>,
      << Msg("system", <<"be brief">>),
         Msg("user", <<"my email is", "user@example.com">>) >>,
      << PartsMsg("user", << TextPart(<<"my email is", "user@example.com">>),
                             ImagePart >>) >>,
      << Msg("system", <<"ssn on file", "123-45-6789">>), Msg("user", <<"hi">>) >>,
      << Msg("user", <<"call", "555-123-4567">>), Msg("assistant", <<"ok">>),
         Msg("user", <<"thanks">>) >>,
      << Msg("system", <<"operator", "10.0.0.1">>) >> }

PromptBodies == [model : {"gpt-4o"}, messages : PromptMessageLists, stream : BOOLEAN]

\* body = await request.json(), for a conversation
ParsePromptBody ==
    /\ req.pc = "body"
    /\ \E body \in PromptBodies :
          req' = [req EXCEPT !.pc = "rate_limit", !.body = body, !.received = body]
    /\ UNCHANGED << storeVars, settings, now, ticks, client_windows, arrivals, admitted, fresh,
                    limiterVars >>

NextPrompt ==
    \/ Arrive
    \/ Authenticate
    \/ ParsePromptBody
    \/ RateLimitStage
    \/ AllowlistStage
    \/ InjectionStage
    \/ PIIStage
    \/ GuardStage
    \/ Dispatch
    \/ UpstreamReturn
    \/ StreamBody
    \/ Complete

SpecPrompt == Init /\ [][NextPrompt]_vars

\* The pipeline under each state of the AWS_LAMBDA_FUNCTION_NAME variable,
\* the other settings at their defaults
GuardDeployments == {[DefaultSettings EXCEPT !.aws_lambda = value] : value \in LambdaEnv}

SpecGuard == InitWith(GuardDeployments) /\ [][Next]_vars

\* The pipeline under each client directory: the registry file (as written,
\* removed after start-up, unparsable), no directory, and the DynamoDB table
\* (query answered, query failed); the other settings at their defaults
DirectoryDeployments ==
    { [DefaultSettings EXCEPT !.client_store = d[1], !.backend = d[2]] :
        d \in { <<"json", "ok">>, <<"json", "removed">>, <<"json", "malformed">>,
                <<"none", "ok">>, <<"dynamodb", "ok">>, <<"dynamodb", "query_error">> } }

SpecDirectory == InitWith(DirectoryDeployments) /\ [][Next]_vars

\* The pipeline on prompts of up to MaxTokens tokens, among them texts the
\* PII patterns match as a whole, in part, and not at all although they hold
\* the text of a match
PIITokens ==
    { "hi", "\n", "123-45-6789", "x123-45-6789", "user@example.com",
      "user@10.0.0.1.com", "10.0.0.1" }

PIIContents == UNION { [1..n -> PIITokens] : n \in 1..MaxTokens }

PIIBodies ==
    [model : {"gpt-4o"},
     messages : { << Msg("user", content) >> : content \in PIIContents },
     stream : BOOLEAN]

\* body = await request.json(), for a prompt over PIITokens
ParsePIIBody ==
    /\ req.pc = "body"
    /\ \E body \in PIIBodies :
          req' = [req EXCEPT !.pc = "rate_limit", !.body = body, !.received = body]
    /\ UNCHANGED << storeVars, settings, now, ticks, client_windows, arrivals, admitted, fresh,
                    limiterVars >>

\* The key of the client the prompts are sent by
PIIKeys == {KeyA}

NextPII ==
    \/ ArriveWith(PIIKeys)
    \/ Authenticate
    \/ ParsePIIBody
    \/ RateLimitStage
    \/ AllowlistStage
    \/ InjectionStage
    \/ PIIStage
    \/ GuardStage
    \/ Dispatch
    \/ UpstreamReturn
    \/ StreamBody
    \/ Complete

\* Every PII_ACTION, the other settings at their defaults
PIIDeployments == {[DefaultSettings EXCEPT !.pii_action = action] : action \in PIIActions}

SpecPII == InitWith(PIIDeployments) /\ [][NextPII]_vars

\* The upstream outcomes of a streaming call, with the failures to open the
\* stream and the streams without text
ProviderStreams ==
    [provider \in Providers |->
        UpstreamStreams[provider] \cup
        ( IF provider = "bedrock"
          THEN { UpstreamStream(<< Item("messageStop", <<>>) >>, FALSE),
                 UpstreamStream(<<>>, FALSE) }
          ELSE { UpstreamStreamError("ConnectError"),
                 UpstreamStream(<<>>, FALSE) } )]

\* The keys of an OpenAI client, of a Bedrock client and of a Bedrock client
\* whose record has no bedrock_model_id
ProviderKeys == {KeyA, KeyC, KeyE}

NextProvider ==
    \/ ArriveWith(ProviderKeys)
    \/ Authenticate
    \/ ParseBody
    \/ RateLimitStage
    \/ AllowlistStage
    \/ InjectionStage
    \/ PIIStage
    \/ GuardStage
    \/ Dispatch
    \/ UpstreamReturnFrom(UpstreamFailures)
    \/ StreamBodyFrom(ProviderStreams)
    \/ Complete
    \/ Tick

\* The pipeline of the default deployment in front of each provider, under
\* every upstream outcome the providers tell apart
SpecProvider == InitWith({DefaultSettings}) /\ [][NextProvider]_vars

(***************************************************************************)
(* The limiter under concurrent request tasks                              *)
(*                                                                         *)
(* Request handlers are coroutines on one event loop. A task keeps the     *)
(* loop until it reaches an await; check_rate_limit contains none.         *)
(***************************************************************************)

\* Variant: a limiter that awaits between its limit test and its append
SuspendsAtWithAwait(pc) == pc \in {"idle", "rl_append"}

\* The positions of a task at which it has yielded the event loop
SuspendsAt(pc) == pc = "idle"

\* Task t may take a step: the loop is free, or t holds it
Scheduled(t) == running = NoTask \/ running = t

\* Who holds the loop once a task has moved to position pc
Owner(t, pc) == IF SuspendsAt(pc) THEN NoTask ELSE t

\* The clients whose requests reach the limiter
LimitedClients == { RegistryFile[1], RegistryFile[2] }

\* check_rate_limit(client_id, limit) is entered: now = time.monotonic()
Call(t) ==
    /\ task[t].pc = "idle"
    /\ Scheduled(t)
    /\ checks < MaxChecks
    /\ \E client \in LimitedClients :
          /\ task' = [task EXCEPT ![t] =
                        [pc |-> "rl_prune", client_id |-> client.client_id,
                         limit |-> client.rate_limit_rpm, rl_now |-> now,
                         result |-> NoRateResult, k_before |-> 0,
                         after_reset |-> client.client_id \in fresh]]
          /\ fresh' = fresh \ {client.client_id}
    /\ checks' = checks + 1
    /\ running' = Owner(t, "rl_prune")
    /\ UNCHANGED << storeVars, settings, now, ticks, client_windows, req, arrivals, resets,
                    admitted >>

\* The pruning loop and the test of the limit; the denied branch returns
LimiterPrune(t) ==
    /\ task[t].pc = "rl_prune"
    /\ Scheduled(t)
    /\ LET client_id == task[t].client_id
           pruned == Prune(client_windows[client_id], task[t].rl_now - WINDOW_SECONDS)
           k == InWindow(admitted[client_id], task[t].rl_now)
       IN  /\ client_windows' = [client_windows EXCEPT ![client_id] = pruned]
           /\ IF LimitReached(pruned, task[t].limit)
              THEN /\ task' = [task EXCEPT ![t] = [@ EXCEPT
                                 !.pc = "rl_return",
                                 !.k_before = k,
                                 !.result = DeniedResult(pruned, task[t].limit,
                                                         task[t].rl_now)]]
                   /\ running' = Owner(t, "rl_return")
              ELSE /\ task' = [task EXCEPT ![t] = [@ EXCEPT
                                 !.pc = "rl_append",
                                 !.k_before = k]]
                   /\ running' = Owner(t, "rl_append")
    /\ UNCHANGED << storeVars, settings, now, ticks, req, arrivals, checks, resets, admitted,
                    fresh >>

\* window.append(now) and the allowed result
LimiterAppend(t) ==
    /\ task[t].pc = "rl_append"
    /\ Scheduled(t)
    /\ LET client_id == task[t].client_id
           window == Append(client_windows[client_id], task[t].rl_now)
       IN  /\ client_windows' = [client_windows EXCEPT ![client_id] = window]
           /\ admitted' = [admitted EXCEPT ![client_id] = Append(@, task[t].rl_now)]
           /\ task' = [task EXCEPT ![t] = [@ EXCEPT
                         !.pc = "rl_return",
                         !.result = AllowedResult(window, task[t].limit,
                                                  task[t].rl_now)]]
    /\ running' = Owner(t, "rl_return")
    /\ UNCHANGED << storeVars, settings, now, ticks, req, arrivals, checks, resets, fresh >>

\* The caller goes on with the result and reaches its next await
Return(t) ==
    /\ task[t].pc = "rl_return"
    /\ Scheduled(t)
    /\ task' = [task EXCEPT ![t] = IdleTask]
    /\ running' = Owner(t, "idle")
    /\ UNCHANGED << storeVars, settings, now, ticks, client_windows, req, arrivals, checks,
                    resets, admitted, fresh >>

NextLimiter ==
    \/ \E t \in Tasks : Call(t)
    \/ \E t \in Tasks : LimiterPrune(t)
    \/ \E t \in Tasks : LimiterAppend(t)
    \/ \E t \in Tasks : Return(t)
    \/ Tick

SpecLimiter == InitLimiter /\ [][NextLimiter]_vars

\* Variant: a reset that clears the whole table
reset_all(client_key) ==
    /\ running = NoTask
    /\ Len(resets) < MaxResets
    /\ client_windows' = [c \in ClientIds |-> <<>>]
    /\ fresh' = fresh \cup {client_key}
    /\ resets' = Append(resets, client_key)
    /\ UNCHANGED << storeVars, settings, now, ticks, req, arrivals, task, running, checks,
                    admitted >>

\* reset_client (a helper of the tests; the gateway never calls it)
reset_client(client_key) ==
    /\ running = NoTask
    /\ Len(resets) < MaxResets
    /\ client_windows' = [client_windows EXCEPT ![client_key] = <<>>]
    /\ fresh' = fresh \cup {client_key}
    /\ resets' = Append(resets, client_key)
    /\ UNCHANGED << storeVars, settings, now, ticks, req, arrivals, task, running, checks,
                    admitted >>

NextReset ==
    \/ NextLimiter
    \/ \E client \in LimitedClients : reset_client(client.client_id)

SpecReset == InitLimiter /\ [][NextReset]_vars

(***************************************************************************)
(* Properties of the pipeline (checked under Spec)                         *)
(***************************************************************************)
StageOrder ==
    << "auth", "rate_limit", "allowlist", "injection", "pii", "guard", "dispatch",
       "response_scan" >>

\* The request has been through the stage
Reached(stage) == \E i \in 1..Len(req.stages) : req.stages[i] = stage

\* The request was answered by the stage and went no further
RejectedAt(stage) ==
    req.pc = "done" /\ req.stages # <<>> /\ req.stages[Len(req.stages)] = stage

\* The records of the directory the deployment is configured with
DirectoryRecords ==
    IF settings.client_store = "json"
    THEN {RegistryFile[i] : i \in 1..Len(RegistryFile)}
    ELSE {}

KeyInDirectory(key) == \E r \in DirectoryRecords : r.api_key = key
KeySuspended(key) == \E r \in DirectoryRecords : r.api_key = key /\ r.status = "suspended"
KeyInLegacyList(key) == \E i \in 1..Len(api_keys_list) : api_keys_list[i] = key

\* The conditions under which each stage rejects, read off the received
\* request, the deployment and the admissions recorded so far
AuthFails ==
    \/ req.key = NoKey
    \/ KeySuspended(req.key)
    \/ ~KeyInDirectory(req.key) /\ ~KeyInLegacyList(req.key)
RateFails == req.k_before >= req.client.rate_limit_rpm
ModelFails ==
    /\ req.client.model_allowlist # {}
    /\ (IF req.received.model = NoModel THEN "unknown" ELSE req.received.model)
           \notin req.client.model_allowlist
InjectionFails ==
    TotalScore(_extract_prompt_content(req.received)) >= INJECTION_THRESHOLD
PIIFails ==
    /\ settings.pii_action = "block"
    /\ \E i \in 1..Len(_extract_prompt_content(req.received)) :
          PIIType(_extract_prompt_content(req.received)[i]) # ""
GuardFails == req.received.stream /\ settings.aws_lambda = "my-gateway-lambda"

\* C1: the provider is invoked for a request only if that request was
\* authenticated, admitted by the rate limiter, passed the model allowlist,
\* was allowed by the injection scan and was not blocked by the PII scan; a
\* request rejected at one of these stages causes no provider call.
C1_ProviderOnlyAfterAllStages ==
    /\ req.provider_calls > 0 =>
          /\ ~AuthFails /\ req.client # NoClient
          /\ req.rate_result.allowed /\ ~RateFails
          /\ ~ModelFails
          /\ ~InjectionFails /\ req.injection_result.allowed
          /\ ~PIIFails
          /\ \A i \in 1..5 : Reached(StageOrder[i])
    /\ (\E i \in 1..5 : RejectedAt(StageOrder[i])) =>
          req.provider_calls = 0 /\ req.sent = NoBody

\* C1 (case reached): a streaming request whose provider stream was opened
C1_Witness ==
    req.pc = "done" /\ req.provider_calls = 1 /\ req.received.stream

\* C2: a request without X-API-Key is answered 401 and a request whose key
\* is neither in the directory nor in the legacy list is answered 403; the
\* step that answers it leaves every rate-limit window as it was, and the
\* request ends without a provider call.
C2_UnknownCallerRejected ==
    [][ /\ (req.pc = "auth" /\ req.key = NoKey) =>
              /\ req'.pc = "done" /\ req'.resp.status = 401
              /\ req'.provider_calls = 0
              /\ client_windows' = client_windows
        /\ (/\ req.pc = "auth" /\ req.key # NoKey
            /\ ~KeyInDirectory(req.key) /\ ~KeyInLegacyList(req.key)) =>
              /\ req'.pc = "done" /\ req'.resp.status = 403
              /\ req'.provider_calls = 0
              /\ client_windows' = client_windows
        /\ (req.pc = "done" /\ req.stages = << "auth" >>) =>
              /\ req'.pc = "idle"
              /\ req.provider_calls = 0 /\ req.sent = NoBody
              /\ client_windows' = client_windows
      ]_vars

\* C2 (case reached): an unknown key has been answered 403 after an earlier
\* request left a timestamp in some window
C2_Witness ==
    /\ RejectedAt("auth") /\ req.key = KeyBad /\ req.resp.status = 403
    /\ \E c \in ClientIds : client_windows[c] # <<>>

\* C3: a key whose directory record is suspended is answered 403 and never
\* reaches the provider, although the same key is in the legacy key list.
C3_SuspendedRejected ==
    (KeySuspended(req.key) /\ KeyInLegacyList(req.key) /\ req.pc # "auth") =>
        /\ RejectedAt("auth")
        /\ req.resp.status = 403
        /\ req.client = NoClient
        /\ req.provider_calls = 0 /\ req.sent = NoBody

\* C3 (case reached): the suspended key, also a legacy key, has been answered
C3_Witness ==
    /\ req.key = KeySus /\ KeySuspended(req.key) /\ KeyInLegacyList(req.key)
    /\ req.pc = "done" /\ req.resp.status = 403

IsPrefix(s, t) == Len(s) <= Len(t) /\ \A i \in 1..Len(s) : s[i] = t[i]

\* The earliest stage whose rejection condition holds, "none" when none does
EarliestFailingStage ==
    IF AuthFails THEN "auth"
    ELSE IF RateFails THEN "rate_limit"
    ELSE IF ModelFails THEN "allowlist"
    ELSE IF InjectionFails THEN "injection"
    ELSE IF PIIFails THEN "pii"
    ELSE IF GuardFails THEN "guard"
    ELSE "none"

\* The answer of each rejecting stage
RejectionOf(stage) ==
    CASE stage = "auth" ->
            IF req.key = NoKey THEN << 401, "Missing API key" >>
            ELSE IF KeySuspended(req.key) THEN << 403, "Client suspended" >>
            ELSE << 403, "Invalid API key" >>
      [] stage = "rate_limit" -> << 429, "Rate limit exceeded" >>
      [] stage = "allowlist" -> << 403, "Model not allowed" >>
      [] stage = "injection" -> << 400, "Prompt injection blocked" >>
      [] stage = "pii" -> << 400, "PII detected - request blocked" >>
      [] stage = "guard" -> << 400, "" >>

\* What the answer says: the detail of an HTTPException, the audit message of
\* a rejecting stage ("" for the guard, which writes none)
AnswerText ==
    IF req.resp.body_key = "detail" THEN req.resp.message
    ELSE IF req.audit = <<>> THEN ""
    ELSE req.audit[Len(req.audit)].message

\* C4: the stages of a request run in the order authenticate, rate limit,
\* model allowlist, injection scan, PII scan, streaming guard, dispatch,
\* response scan; when several rejection conditions hold at once the request
\* is answered by the earliest failing stage, with that stage's status.
C4_StagesInOrder ==
    /\ IsPrefix(req.stages, StageOrder)
    /\ req.pc = "done" =>
          IF EarliestFailingStage = "none"
          THEN Reached("dispatch")
          ELSE /\ RejectedAt(EarliestFailingStage)
               /\ req.resp.status = RejectionOf(EarliestFailingStage)[1]
               /\ AnswerText = RejectionOf(EarliestFailingStage)[2]

\* C4 (case reached): a request over its limit that also names a model
\* outside the allowlist, carries an injection and PII under block mode and
\* asks for a stream on Lambda: it is answered 429
C4_Witness ==
    /\ req.pc = "done" /\ ~AuthFails
    /\ RateFails /\ ModelFails /\ InjectionFails /\ PIIFails /\ GuardFails
    /\ req.resp.status = 429

\* C6: a check that finds at least `limit` unexpired timestamps of the client
\* is denied with remaining = 0 and reset_seconds = head + 60 s - now, which
\* lies between 0 and 60 s, and the request is answered 429 with Retry-After,
\* X-RateLimit-Limit, X-RateLimit-Remaining: 0 and X-RateLimit-Reset; a check
\* that finds fewer is allowed, so with limit L the first L requests of a
\* window are admitted and request L+1 is the first denied.
C6_DeniedAtLimit ==
    Reached("rate_limit") =>
        LET L == req.client.rate_limit_rpm
            window == client_windows[req.client.client_id]
            result == req.rate_result
        IN  /\ result.allowed <=> req.k_before < L
            /\ ~result.allowed =>
                  /\ result.remaining = 0
                  /\ result.reset_seconds = Head(window) + WINDOW_SECONDS - now
                  /\ result.reset_seconds >= 0
                  /\ result.reset_seconds <= WINDOW_SECONDS
                  /\ RejectedAt("rate_limit")
                  /\ req.resp.status = 429
                  /\ { "Retry-After", "X-RateLimit-Limit", "X-RateLimit-Remaining",
                       "X-RateLimit-Reset" } \subseteq DOMAIN req.resp.headers
                  /\ req.resp.headers["X-RateLimit-Remaining"] = 0
                  /\ req.resp.headers["X-RateLimit-Limit"] = L
                  /\ req.resp.headers["Retry-After"] = result.reset_seconds \div 10
                  /\ req.resp.headers["X-RateLimit-Reset"] = result.reset_seconds \div 10
                  /\ req.provider_calls = 0

\* C6 (case reached): the request after the last one a client's limit admits
\* is denied while the window is half-way through
C6_Witness ==
    /\ RejectedAt("rate_limit") /\ req.resp.status = 429
    /\ req.k_before = req.client.rate_limit_rpm
    /\ req.rate_result.reset_seconds > 0
    /\ req.rate_result.reset_seconds < WINDOW_SECONDS

\* C9: a request that passed authentication and rate limiting is answered
\* 403 by the allowlist stage, and not dispatched, exactly when the client's
\* allowlist is non-empty and does not contain the requested model, "unknown"
\* standing for a missing model field; an empty allowlist accepts every model.
C9_AllowlistDecides ==
    Reached("allowlist") =>
        /\ ModelFails <=>
              /\ RejectedAt("allowlist")
              /\ req.resp.status = 403
              /\ req.provider_calls = 0 /\ req.sent = NoBody
        /\ req.client.model_allowlist = {} => ~RejectedAt("allowlist")

\* C9 (case reached): a body without a model field is rejected for a client
\* whose allowlist does not hold the placeholder
C9_Witness ==
    /\ RejectedAt("allowlist") /\ req.resp.status = 403
    /\ req.received.model = NoModel

\* C10: under PII_ACTION block, a request whose extracted prompt holds at
\* least one PII detection when it comes to the PII scan is answered 400 and
\* the provider is not called for it.
C10_PIIBlocked ==
    (Reached("pii") /\ PIIFails) =>
        /\ RejectedAt("pii")
        /\ req.resp.status = 400
        /\ req.resp.message = "Request contains sensitive data (PII)"
        /\ req.pii_result.detection_count > 0
        /\ req.provider_calls = 0 /\ req.sent = NoBody

\* C10 (case reached): a prompt with a mail address has been refused
C10_Witness ==
    /\ RejectedAt("pii") /\ settings.pii_action = "block"
    /\ req.resp.status = 400
    /\ "EMAIL" \in req.pii_result.detections

(***************************************************************************)
(* Properties of the limiter (checked under SpecLimiter and SpecReset)     *)
(***************************************************************************)
\* The limit the directory gives the client
LimitOf(client_id) ==
    (CHOOSE client \in LimitedClients : client.client_id = client_id).rate_limit_rpm

\* Task t has its result and has not handed it on yet
Returning(t) == task[t].pc = "rl_return"

\* C5: an allowed check of a client with limit L that is the k-th allowed
\* check with a timestamp still inside the 60 s window reports
\* remaining = max(0, L - k) and limit = L.
C5_RemainingCountsDown ==
    \A t \in Tasks :
        (Returning(t) /\ task[t].result.allowed) =>
            LET L == LimitOf(task[t].client_id)
                k == InWindow(admitted[task[t].client_id], task[t].rl_now)
            IN  /\ k = task[t].k_before + 1
                /\ task[t].result.remaining = Max(0, L - k)
                /\ task[t].result.limit = L

\* C5 (case reached): a second allowed check inside the window of the first
C5_Witness ==
    \E t \in Tasks :
        /\ Returning(t) /\ task[t].result.allowed
        /\ task[t].k_before = 1
        /\ Len(admitted[task[t].client_id]) = 2

\* The admitted checks of the client inside the closed 60 s window ending at
\* each admitted timestamp never number more than the limit.  (A window that
\* holds a set of admissions can be moved to end at the latest of them.)
WithinLimit(client_id) ==
    \A i \in 1..Len(admitted[client_id]) :
        InWindow(admitted[client_id], admitted[client_id][i]) <= LimitOf(client_id)

\* C7: whatever the interleaving of concurrent calls, no task runs between
\* the prune and the append of another task's check, and the admissions of
\* a client inside any 60 s window never exceed its limit.
C7_CheckIsAtomic ==
    /\ Cardinality({t \in Tasks : task[t].pc # "idle"}) <= 1
    /\ \A t \in Tasks : task[t].pc # "idle" => running = t
    /\ \A client \in LimitedClients : WithinLimit(client.client_id)

\* C7 (case reached): a client has been admitted up to its limit by calls of
\* both tasks' making and a further call for it is being denied
C7_Witness ==
    \E t \in Tasks :
        /\ Returning(t) /\ ~task[t].result.allowed
        /\ task[t].k_before = LimitOf(task[t].client_id)
        /\ task[t].k_before >= 2
        /\ checks >= 3

\* The client whose window a step of the limiter works on
ActsOn(client_id) ==
    \/ \E t \in Tasks :
          /\ task[t].pc \in {"rl_prune", "rl_append"}
          /\ task'[t] # task[t]
          /\ task[t].client_id = client_id
    \/ /\ Len(resets') = Len(resets) + 1
       /\ resets'[Len(resets')] = client_id

\* C8: a check or a reset_client for one client leaves the window of every
\* other client unchanged; a check is denied only on the strength of the
\* client's own admissions; the first check after reset_client is allowed
\* with remaining = limit - 1.
C8_WindowsIndependent ==
    /\ [][ \A b \in ClientIds :
              client_windows'[b] # client_windows[b] => ActsOn(b) ]_vars
    /\ [](\A t \in Tasks :
            /\ (Returning(t) /\ ~task[t].result.allowed) =>
                  InWindow(admitted[task[t].client_id], task[t].rl_now)
                      >= LimitOf(task[t].client_id)
            /\ (Returning(t) /\ task[t].after_reset) =>
                  /\ task[t].result.allowed
                  /\ task[t].result.remaining = LimitOf(task[t].client_id) - 1)

\* C8 (case reached): a client that had used up its limit was reset and is
\* allowed again, while another client's window holds its timestamps
C8_Witness ==
    \E t \in Tasks :
        /\ Returning(t) /\ task[t].after_reset /\ task[t].result.allowed
        /\ task[t].k_before = LimitOf(task[t].client_id)
        /\ \E b \in ClientIds \ {task[t].client_id} : client_windows[b] # <<>>

(***************************************************************************)
(* Properties of redaction (checked under SpecPrompt)                      *)
(***************************************************************************)
\* A text with every token that is a PII match replaced by the placeholder of
\* its kind
RedactedText(text) ==
    [i \in 1..Len(text) |->
        IF PIIType(text[i]) # "" THEN Placeholder(PIIType(text[i])) ELSE text[i]]

\* A message with its own text redacted: a string stays a string, a list
\* stays the same list with its text parts redacted
RedactedMessage(msg) ==
    IF msg.kind = "str" THEN [msg EXCEPT !.content = RedactedText(msg.content)]
    ELSE [msg EXCEPT !.parts =
             [i \in 1..Len(msg.parts) |->
                 IF msg.parts[i].type = "text"
                 THEN [msg.parts[i] EXCEPT !.text = RedactedText(@)]
                 ELSE msg.parts[i]]]

UserMessages(body) == {i \in 1..Len(body.messages) : body.messages[i].role = "user"}

\* The body with its last user-role message redacted and nothing else touched
LastUserMessageRedacted(body) ==
    IF UserMessages(body) = {} THEN body
    ELSE LET last == CHOOSE i \in UserMessages(body) : \A j \in UserMessages(body) : j <= i
         IN  [body EXCEPT !.messages[last] = RedactedMessage(@)]

PromptHasPII(body) ==
    \E i \in 1..Len(_extract_prompt_content(body)) :
        PIIType(_extract_prompt_content(body)[i]) # ""

\* C11 (as stated): under PII_ACTION redact a dispatched body whose prompt
\* held PII is the received body with the content of its last user-role
\* message replaced by the redacted form of that message's own text (a list
\* stays a list), every other message and field unchanged; under log_only the
\* dispatched body is the received body.
C11_RedactsLastUserMessage ==
    req.sent # NoBody =>
        /\ (settings.pii_action = "redact" /\ PromptHasPII(req.received)) =>
              req.sent = LastUserMessageRedacted(req.received)
        /\ settings.pii_action = "log_only" => req.sent = req.received

\* C11 (case reached): a conversation of a system and a user message was
\* dispatched under redact with the whole joined prompt as the content of the
\* user message
C11_Witness ==
    /\ settings.pii_action = "redact"
    /\ req.sent # NoBody
    /\ Len(req.received.messages) = 2
    /\ req.sent.messages[2].content =
          << "be brief", "\n", "my email is", "[REDACTED_EMAIL]" >>

(***************************************************************************)
(* Properties of the response side (checked under Spec)                    *)
(***************************************************************************)
HasPII(text) == \E i \in 1..Len(text) : PIIType(text[i]) # ""
HasInjection(text) == \E i \in 1..Len(text) : InjectionWeight(text[i]) > 0

\* The response scan of the request blocked: the 400 of the unary path, the
\* error event in place of [DONE] of the streaming path
ResponseBlocked ==
    /\ req.scanned.some
    /\ \/ RejectedAt("response_scan") /\ req.resp.status = 400
       \/ req.events # <<>> /\ req.events[Len(req.events)] = SseError

\* C12 (as stated): the response scan blocks exactly when RESPONSE_PII_ACTION
\* is block and the scanned text holds at least one PII detection, whatever
\* the request-side PII_ACTION; injection findings never make it block.
C12_ResponseBlockedIffPII ==
    req.scanned.some =>
        (ResponseBlocked <=>
            (settings.response_pii_action = "block" /\ HasPII(req.scanned.text)))

\* C12 (case reached): under RESPONSE_PII_ACTION block and PII_ACTION log_only
\* a response with a mail address was scanned and passed on
C12_Witness ==
    /\ settings.response_pii_action = "block" /\ settings.pii_action = "log_only"
    /\ req.scanned.some /\ HasPII(req.scanned.text)
    /\ req.pc = "done" /\ req.resp.status = 200 /\ ~ResponseBlocked

\* The provider returned a ProviderResponse to this non-streaming request
ProviderReturned == req.reply # NoReply /\ ~req.received.stream

\* C13: for a non-streaming request the response scan runs on the text of the
\* ProviderResponse, after the single provider call and before the answer; if
\* the scan blocks, the answer is 400 and carries none of the upstream body;
\* otherwise it is the upstream status and body unchanged, with
\* X-RateLimit-Limit, X-RateLimit-Remaining (the remaining count of this
\* request's rate-limit check), X-RateLimit-Reset and X-Request-Id.
C13_UnaryAnswerAfterScan ==
    ProviderReturned =>
        LET text == _extract_response_content(req.reply.body)
            L == req.client.rate_limit_rpm
        IN  /\ req.provider_calls = 1 /\ req.pc = "done"
            /\ req.scanned = Some(text)
            /\ IF scan_response(text, settings).blocked
               THEN /\ req.resp.status = 400
                    /\ ~req.resp.upstream.some
                    /\ req.resp.body_key = "error"
               ELSE /\ req.resp.status = req.reply.status_code
                    /\ req.resp.upstream = [some |-> TRUE, body |-> req.reply.body]
                    /\ DOMAIN req.resp.headers =
                          {"X-RateLimit-Limit", "X-RateLimit-Remaining",
                           "X-RateLimit-Reset", "X-Request-Id"}
                    /\ req.resp.headers["X-RateLimit-Limit"] = L
                    /\ req.resp.headers["X-RateLimit-Remaining"] =
                          Max(0, L - (req.k_before + 1))
                    /\ req.resp.headers["X-Request-Id"] = req.rid

\* C13 (case reached): the second request of a client inside the window is
\* answered with the upstream's 500 and its body, and one with an address in
\* the answer is refused with 400
C13_Witness ==
    /\ ProviderReturned
    /\ req.reply.status_code = 500 /\ req.resp.status = 500
    /\ req.k_before = 1
    /\ req.resp.headers["X-RateLimit-Remaining"] = 0

C13_WitnessBlocked ==
    /\ ProviderReturned /\ req.resp.status = 400
    /\ HasPII(_extract_response_content(req.reply.body))

(***************************************************************************)
(* Properties of streaming responses (checked under Spec)                  *)
(***************************************************************************)
\* The SSE response of the request has been sent to its end
Streamed == req.pc = "done" /\ req.resp.body_key = "sse"

IsTerminal(event) == event = SseData("[DONE]") \/ event = SseError

TerminalEvents == {i \in 1..Len(req.events) : IsTerminal(req.events[i])}

\* C14: every streaming response ends with exactly one terminal event, its
\* last one: [DONE] when the response scan of the accumulated text does not
\* block, a single error event when it blocks; [DONE] is never sent unless the
\* response scan has run.
C14_OneTerminalEvent ==
    Streamed =>
        /\ TerminalEvents = {Len(req.events)}
        /\ req.events # <<>>
        /\ req.scanned.some =>
              (req.events[Len(req.events)] = SseError
                  <=> scan_response(req.scanned.text, settings).blocked)
        /\ (\E i \in 1..Len(req.events) : req.events[i] = SseData("[DONE]"))
              => req.scanned.some

\* C14 (case reached): the upstream closed the stream after a chunk without
\* sending its done line, and the response ended without a terminal event
C14_Witness ==
    /\ Streamed
    /\ req.chunks = << StreamChunk("c1", FALSE, <<"Hello!">>) >>
    /\ req.events = << SseData("c1") >>
    /\ TerminalEvents = {}

\* The chunks of the provider stream before its done chunk or its exception
RECURSIVE ForwardedChunks(_)
ForwardedChunks(chunks) ==
    IF chunks = <<>> \/ Head(chunks).raises \/ Head(chunks).is_done
    THEN <<>>
    ELSE << Head(chunks) >> \o ForwardedChunks(Tail(chunks))

RECURSIVE Deltas(_)
Deltas(chunks) ==
    IF chunks = <<>> THEN <<>> ELSE Head(chunks).text_delta \o Deltas(Tail(chunks))

StreamDone == \E i \in 1..Len(req.chunks) : req.chunks[i].is_done
StreamRaised == \E i \in 1..Len(req.chunks) : req.chunks[i].raises

\* C15: the text passed to the response scanner of a streaming request is the
\* concatenation, in arrival order, of the text deltas of the chunks received
\* before the terminal chunk.
C15_ScannedIsConcatenation ==
    (Streamed /\ StreamDone) =>
        req.scanned = Some(Deltas(ForwardedChunks(req.chunks)))

\* C15 (case reached): two deltas, then the done chunk
C15_Witness ==
    /\ Streamed /\ StreamDone
    /\ Len(ForwardedChunks(req.chunks)) = 2
    /\ req.scanned = Some(<<"write to", "user@example.com">>)

\* C16: every chunk before the terminal one is forwarded exactly once,
\* verbatim as data: <data>, in arrival order; a terminal event comes only
\* after all of them and nothing follows it.
C16_ChunksForwardedInOrder ==
    Streamed =>
        LET forwarded == ForwardedChunks(req.chunks)
            n == Len(forwarded)
        IN  /\ Len(req.events) \in {n, n + 1}
            /\ \A i \in 1..n : req.events[i] = << "data", forwarded[i].data >>
            /\ Len(req.events) = n + 1 =>
                  req.events[n + 1] \in { << "data", "[DONE]" >>, SseError }

\* C16 (case reached): two chunks forwarded, then [DONE]
C16_Witness ==
    /\ Streamed
    /\ req.events = << << "data", "c1" >>, << "data", "fin" >>, << "data", "[DONE]" >> >>

\* C17: when the provider stream raises, at once or between chunks, the SSE
\* response ends with exactly one error event, after the chunks forwarded so
\* far; no [DONE] is sent.
C17_StreamErrorEvent ==
    (Streamed /\ StreamRaised) =>
        LET forwarded == ForwardedChunks(req.chunks)
        IN  /\ req.events =
                  [i \in 1..Len(forwarded) |-> << "data", forwarded[i].data >>]
                      \o << SseError >>
            /\ \A i \in 1..Len(req.events) : req.events[i] # << "data", "[DONE]" >>

\* C17 (case reached): the stream raises after its first chunk
C17_Witness ==
    /\ Streamed /\ StreamRaised
    /\ req.events = << << "data", "c1" >>, SseError >>

\* C17 (case reached): the stream raises before any chunk
C17_WitnessAtOnce ==
    /\ Streamed /\ req.chunks = << StreamRaises >>
    /\ req.events = << SseError >>

(***************************************************************************)
(* Properties of every answer (checked under Spec)                         *)
(***************************************************************************)
\* The request has received its response
Answered == req.pc = "done" /\ req.resp # NoResp

\* C18: every request that receives a response has written an audit record,
\* on every error path too.
C18_EveryResponseAudited ==
    Answered => req.audit # <<>>

\* C18 (case reached): a request refused for its key, answered 401 or 403
\* without any audit record
C18_Witness ==
    /\ Answered /\ RejectedAt("auth")
    /\ req.resp.status \in {401, 403}
    /\ req.audit = <<>>

\* C18 (case reached): the provider raised and no audit record was written
C18_WitnessUpstream ==
    /\ Answered /\ req.provider_calls = 1 /\ req.resp.status = 502
    /\ req.audit = <<>>

\* C19: every response carries an X-Request-Id header whose value is the
\* request id of the request's audit records.
C19_RequestIdOnEveryResponse ==
    Answered =>
        /\ "X-Request-Id" \in DOMAIN req.resp.headers
        /\ \A i \in 1..Len(req.audit) :
              req.audit[i].request_id = req.resp.headers["X-Request-Id"]

\* C19 (case reached): a 429 whose audit record has the request id and whose
\* headers do not
C19_Witness ==
    /\ Answered /\ req.resp.status = 429
    /\ req.audit = << AuditRecord("Rate limit exceeded", req.rid) >>
    /\ req.rid > 0
    /\ DOMAIN req.resp.headers =
          {"Retry-After", "X-RateLimit-Limit", "X-RateLimit-Remaining", "X-RateLimit-Reset"}

\* An error answer made by the gateway itself (not a proxied upstream answer)
GatewayError == Answered /\ req.resp.status >= 400 /\ ~req.resp.upstream.some

\* C20: every error response of the gateway has a body {"error": <message>}.
C20_ErrorBodyShape ==
    GatewayError => req.resp.body_key = "error"

\* C20 (case reached): a missing key is answered 401 with a body under "detail"
C20_Witness ==
    /\ GatewayError /\ req.key = NoKey
    /\ req.resp.status = 401 /\ req.resp.body_key = "detail"

\* C20 (case reached): the exception of a provider is answered under "detail"
C20_WitnessUpstream ==
    /\ GatewayError /\ req.provider_calls = 1
    /\ req.resp.status = 502 /\ req.resp.body_key = "detail"

(***************************************************************************)
(* Properties of the streaming guard (checked under SpecGuard)             *)
(***************************************************************************)
\* The request passed every stage before the guard and the guard has acted
PastGuard == Reached("guard")

NoProviderStream ==
    /\ req.provider_calls = 0 /\ req.chunks = <<>> /\ req.events = <<>>
    /\ ~Reached("dispatch")

\* The guard let the request through to dispatch
Dispatched ==
    /\ ~RejectedAt("guard")
    /\ req.pc \in {"dispatch", "streaming", "upstream", "done"}
    /\ req.pc # "dispatch" => Reached("dispatch")

\* C21 (as stated): whenever AWS_LAMBDA_FUNCTION_NAME is in the environment, a
\* stream=true request that passed the earlier stages is answered 400 and no
\* provider stream is opened; a request without stream=true is dispatched.
C21_GuardWhenVariableSet ==
    PastGuard =>
        /\ (req.received.stream /\ settings.aws_lambda # NoEnv) =>
              (RejectedAt("guard") /\ req.resp.status = 400 /\ NoProviderStream)
        /\ ~req.received.stream => Dispatched

\* C21 (amended): the same when AWS_LAMBDA_FUNCTION_NAME has a non-empty
\* value; with the variable unset or empty every request is dispatched.
C21_GuardWhenVariableNonEmpty ==
    PastGuard =>
        /\ (req.received.stream /\ settings.aws_lambda \notin {NoEnv, ""}) =>
              (RejectedAt("guard") /\ req.resp.status = 400 /\ NoProviderStream)
        /\ (~req.received.stream \/ settings.aws_lambda \in {NoEnv, ""}) => Dispatched

\* C21 (case reached): a stream=true request refused on Lambda
C21_Witness ==
    /\ PastGuard /\ req.received.stream
    /\ settings.aws_lambda = "my-gateway-lambda"
    /\ RejectedAt("guard") /\ req.resp.status = 400

\* C21 (case reached): with the variable set to the empty string the stream is
\* opened
C21_WitnessEmpty ==
    /\ PastGuard /\ req.received.stream /\ settings.aws_lambda = ""
    /\ req.pc = "done" /\ req.provider_calls = 1 /\ req.resp.status = 200

(***************************************************************************)
(* Properties of the client directory (checked under SpecDirectory)        *)
(***************************************************************************)
\* A directory is configured
StoreConfigured == settings.client_store \in {"json", "dynamodb"}

\* The lookup of the directory fails (file not parsable, query failed)
BackendFails == StoreConfigured /\ settings.backend \in {"malformed", "query_error"}

\* The directory holds a record for the key at the time of the lookup
DirectoryHolds(key) ==
    /\ StoreConfigured /\ settings.backend = "ok"
    /\ \E i \in 1..Len(RegistryFile) : RegistryFile[i].api_key = key

InLegacyList(key) == \E i \in 1..Len(api_keys_list) : api_keys_list[i] = key

\* The request was authenticated with a record synthesized for a legacy key
AuthenticatedAsLegacy ==
    /\ Reached("auth") /\ ~RejectedAt("auth")
    /\ IsPrefix(LegacyPrefix, req.client.client_id)

\* C22: when the directory has no record for the key, or there is no
\* directory, and the key is in the legacy list, the request is authenticated
\* with a record with a legacy- id, provider openai, the global upstream key,
\* an empty allowlist and the global rate limit.
C22_LegacyFallback ==
    (Reached("auth") /\ ~BackendFails /\ ~DirectoryHolds(req.key) /\ InLegacyList(req.key)) =>
        /\ AuthenticatedAsLegacy
        /\ req.client.client_id = LegacyPrefix \o SubSeq(req.key, 1, Min(8, Len(req.key)))
        /\ req.client.provider = "openai"
        /\ req.client.upstream_api_key = UPSTREAM_API_KEY
        /\ req.client.model_allowlist = {}
        /\ req.client.rate_limit_rpm = GlobalRpm

\* C22 (case reached): a directory is configured and misses
C22_Witness ==
    /\ settings.client_store = "json" /\ settings.backend = "ok"
    /\ req.key = KeyLegacy1 /\ AuthenticatedAsLegacy
    /\ req.client.upstream_api_key = UPSTREAM_API_KEY

\* C23 (as stated): with a client store configured, a key that is absent from
\* the store is never authenticated through the legacy key list.
C23_NoLegacyWithStore ==
    (Reached("auth") /\ StoreConfigured /\ ~DirectoryHolds(req.key)) =>
        ~AuthenticatedAsLegacy

\* C23 (amended): a key that has a record in the configured store is never
\* authenticated through the legacy key list, also when the list holds it;
\* a key without a record is, whether or not a store is configured.
C23_NoLegacyForStoredKey ==
    Reached("auth") =>
        /\ DirectoryHolds(req.key) => ~AuthenticatedAsLegacy
        /\ (AuthenticatedAsLegacy /\ StoreConfigured) => ~DirectoryHolds(req.key)

\* C23 (case reached): the suspended client's key is in the legacy list too,
\* and is refused
C23_Witness ==
    /\ DirectoryHolds(req.key) /\ InLegacyList(req.key)
    /\ RejectedAt("auth") /\ req.resp.status = 403

\* C23 (case reached): a store is configured and a legacy key gets in
C23_WitnessLegacy ==
    /\ StoreConfigured /\ settings.client_store = "dynamodb"
    /\ AuthenticatedAsLegacy /\ req.pc = "done" /\ req.resp.status = 200

\* C24: a failure of the directory backend during the lookup counts as an
\* unknown key: the request goes on through the legacy fallback or is
\* answered 403, never 5xx.
C24_BackendFailureIsUnknownKey ==
    (Reached("auth") /\ BackendFails /\ req.key # NoKey) =>
        /\ InLegacyList(req.key) => AuthenticatedAsLegacy
        /\ ~InLegacyList(req.key) => (RejectedAt("auth") /\ req.resp.status = 403)
        /\ req.resp.status < 500

\* C24 (case reached): the registry file cannot be parsed and a key of the
\* registry is answered 500
C24_Witness ==
    /\ settings.client_store = "json" /\ settings.backend = "malformed"
    /\ req.key = KeyA /\ RejectedAt("auth") /\ req.resp = ServerError

\* C24 (case reached): the file is gone and the lookup misses
C24_WitnessRemoved ==
    /\ settings.client_store = "json" /\ settings.backend = "removed"
    /\ req.key = KeyA /\ RejectedAt("auth") /\ req.resp.status = 403

(***************************************************************************)
(* C25: a Bedrock client without a model id (SpecProvider)                 *)
(***************************************************************************)
\* The request of a Bedrock client whose record has no bedrock_model_id was
\* dispatched and has been answered
AnsweredWithoutModelId ==
    /\ req.pc = "done" /\ Reached("dispatch")
    /\ req.client.provider = "bedrock" /\ req.client.bedrock_model_id = ""

\* C25: a Bedrock client whose bedrock_model_id is empty gets a 400 response
\* at dispatch, for non-streaming and for streaming requests, and the Converse
\* API is never called.
C25_MissingModelIdIs400 ==
    AnsweredWithoutModelId => req.resp.status = 400 /\ req.upstream_calls = 0

\* C25 (case reached): the streaming request of such a client is answered 200
\* with one error event; the Converse API was not called
C25_Witness ==
    /\ AnsweredWithoutModelId /\ req.received.stream
    /\ req.resp.status = 200 /\ req.events = << SseError >>
    /\ req.upstream_calls = 0

\* C25 (case reached): the non-streaming request of such a client is answered
\* 400 and the Converse API was not called
C25_WitnessUnary ==
    /\ AnsweredWithoutModelId /\ ~req.received.stream
    /\ req.resp.status = 400 /\ req.resp.body_key = "detail"
    /\ req.upstream_calls = 0

(***************************************************************************)
(* C26: upstream failures of non-streaming requests (SpecProvider)         *)
(***************************************************************************)
\* The non-streaming call of the request failed upstream: the client
\* library raised, or the answer was no JSON document
UpstreamFailed ==
    req.pc = "done" /\ req.outcome.kind \in {"error", "not_json"}

\* The status the error table gives to an upstream failure
TableStatus(outcome) ==
    CASE outcome.error = "ThrottlingException" -> 429
      [] outcome.error = "ValidationException" -> 400
      [] outcome.error = "AccessDeniedException" -> 403
      [] outcome.error = "ModelNotReadyException" -> 503
      [] outcome.error = "ConnectError" -> 502
      [] outcome.error = "TimeoutException" -> 504
      [] OTHER -> 502

\* C26: upstream failures are reported with a fixed status and never retried:
\* Bedrock ThrottlingException 429, ValidationException 400,
\* AccessDeniedException 403, ModelNotReadyException 503, connect failure 502,
\* timeout 504, any other upstream error 502; exactly one upstream call is
\* made per request.
C26_UpstreamFailureStatus ==
    UpstreamFailed =>
        /\ req.resp.status = TableStatus(req.outcome)
        /\ req.upstream_calls = 1

\* C26 (case reached): the upstream answered the one call with a body that
\* is no JSON document and the request was answered 500
C26_Witness ==
    /\ UpstreamFailed /\ req.outcome.kind = "not_json"
    /\ req.upstream_calls = 1 /\ req.resp = ServerError

\* C26 (case reached): a Bedrock model that is not ready is reported as 503
\* after one call
C26_WitnessBedrock ==
    /\ UpstreamFailed /\ req.outcome.error = "ModelNotReadyException"
    /\ req.upstream_calls = 1 /\ req.resp.status = 503

\* The failures the providers handle are reported with the status of the
\* table after one call
C26_HandledFailureStatus ==
    UpstreamFailed /\ req.outcome.kind = "error" =>
        /\ req.resp.status = TableStatus(req.outcome)
        /\ req.upstream_calls = 1

(***************************************************************************)
(* C27, C28: the PII scanner on the prompt (SpecPII)                       *)
(***************************************************************************)
\* scan_for_pii has returned its result for the prompt of the request
Scanned == Reached("pii")

\* C27: every PIIResult returned by scan_for_pii, in every action mode,
\* satisfies: clean = true implies detection_count = 0 and redacted_content is
\* absent.
C27_CleanMeansNoDetections ==
    Scanned /\ req.pii_result.clean =>
        /\ req.pii_result.detection_count = 0
        /\ ~req.pii_result.redacted_content.some

\* C27 (case reached): under log_only a prompt with PII gets a result that
\* is clean and counts detections
C27_Witness ==
    /\ Scanned /\ settings.pii_action = "log_only"
    /\ req.pii_result.clean
    /\ req.pii_result.detection_count > 0
    /\ req.pii_result.detections # {}

\* C27 (case reached): a blank prompt gets a clean result without detections
C27_WitnessBlank ==
    /\ Scanned /\ IsBlank(_extract_prompt_content(req.received))
    /\ req.pii_result = PIIResult(TRUE, {}, None, 0)

\* scan_for_pii has returned a redacted text for the prompt of the request
ScannedAndRedacted ==
    /\ Scanned /\ Lower(settings.pii_action) = "redact"
    /\ req.pii_result.redacted_content.some

\* The number of placeholders in a text
RECURSIVE PlaceholderCount(_)
PlaceholderCount(text) ==
    IF text = <<>> THEN 0
    ELSE ( IF \/ \E p \in 1..Len(PIITypes) : Head(text) = Placeholder(PIITypes[p])
              \/ Head(text) \in {"x[REDACTED_SSN]", "user@[REDACTED_IP].com"}
           THEN 1 ELSE 0 )
         + PlaceholderCount(Tail(text))

\* The tokens a pattern matches, as a whole or in part
HoldsMatch(tok) ==
    PIIType(tok) # "" \/ \E p \in 1..Len(PIITypes) : InnerMatches(tok, PIITypes[p]) # <<>>

\* C28: in redact mode the redacted text is the input with every counted
\* match replaced at its own site by the placeholder of its kind and every
\* character outside a match site unchanged; the number of placeholders
\* equals detection_count, also for repeated, overlapping or nested matches.
C28_RedactedAtMatchSites ==
    ScannedAndRedacted =>
        LET content == _extract_prompt_content(req.received)
            redacted == req.pii_result.redacted_content.text
        IN  /\ Len(redacted) = Len(content)
            /\ \A i \in 1..Len(content) :
                  IF HoldsMatch(content[i])
                  THEN redacted[i] = Placeholder(PIIType(content[i]))
                  ELSE redacted[i] = content[i]
            /\ PlaceholderCount(redacted) = req.pii_result.detection_count

\* C28 (case reached): the text of the SSN is replaced inside a word the
\* pattern does not match, and the SSN itself stays in the redacted text
C28_Witness ==
    /\ ScannedAndRedacted
    /\ _extract_prompt_content(req.received) = << "x123-45-6789", "123-45-6789" >>
    /\ req.pii_result.redacted_content.text = << "x[REDACTED_SSN]", "123-45-6789" >>
    /\ req.pii_result.detection_count = 1

\* C28 (case reached): an address inside an e-mail address is counted and
\* gets no placeholder
C28_WitnessNested ==
    /\ ScannedAndRedacted
    /\ _extract_prompt_content(req.received) = << "hi", "user@10.0.0.1.com" >>
    /\ req.pii_result.redacted_content.text = << "hi", "[REDACTED_EMAIL]" >>
    /\ req.pii_result.detection_count = 2

\* C28 (case reached): a repeated match is replaced at both sites
C28_WitnessRepeated ==
    /\ ScannedAndRedacted
    /\ _extract_prompt_content(req.received) = << "123-45-6789", "123-45-6789" >>
    /\ req.pii_result.redacted_content.text = << "[REDACTED_SSN]", "[REDACTED_SSN]" >>
    /\ req.pii_result.detection_count = 2

\* With every match a whole token of its own, the redacted text is the
\* input with each match replaced at its site
C28_RedactedWhenMatchesAreTokens ==
    ScannedAndRedacted
    /\ (LET content == _extract_prompt_content(req.received)
        IN  \A i \in 1..Len(content) :
               content[i] \notin {"x123-45-6789", "user@10.0.0.1.com"})
    => C28_RedactedAtMatchSites

(***************************************************************************)
(* C29: the window of a client (SpecReset)                                 *)
(***************************************************************************)
NonDecreasing(window) ==
    \A i \in 1..Len(window) : \A j \in i..Len(window) : window[i] <= window[j]

\* The step drops the first k entries of the window of the client and keeps
\* the others in place
DropsFirst(client_id, k) ==
    LET window == client_windows[client_id]
        after == client_windows'[client_id]
    IN  /\ k <= Len(window)
        /\ Len(after) >= Len(window) - k
        /\ SubSeq(after, 1, Len(window) - k) = SubSeq(window, k + 1, Len(window))

\* The step is the pruning loop of a check of the client, and the first k
\* entries of its window are older than the window of the check
PrunesExpired(client_id, k) ==
    \E t \in Tasks :
        /\ task[t].pc = "rl_prune" /\ task'[t] # task[t]
        /\ task[t].client_id = client_id
        /\ \A i \in 1..k :
              client_windows[client_id][i] < task[t].rl_now - WINDOW_SECONDS

\* The step is reset_client for the client
Resets(client_id) ==
    Len(resets') = Len(resets) + 1 /\ resets'[Len(resets')] = client_id

\* C29: after every rate-limit check for a client (allowed or denied) the
\* client's window holds only timestamps >= now - 60 s, in non-decreasing
\* order; an entry is dropped only by pruning (or reset_client); and once all
\* recorded entries are older than 60 s the next check is allowed with
\* remaining = limit - 1.
C29_WindowAfterCheck ==
    /\ [](\A t \in Tasks :
            Returning(t) =>
                LET window == client_windows[task[t].client_id]
                IN  /\ task[t].rl_now = now
                    /\ \A i \in 1..Len(window) : window[i] >= now - WINDOW_SECONDS
                    /\ NonDecreasing(window)
                    /\ task[t].k_before = 0 =>
                          /\ task[t].result.allowed
                          /\ task[t].result.remaining = task[t].limit - 1
                          /\ window = << now >>)
    /\ [][ \A c \in ClientIds :
              \/ Resets(c)
              \/ \E k \in 0..Len(client_windows[c]) :
                    /\ DropsFirst(c, k)
                    /\ k > 0 => PrunesExpired(c, k) ]_vars

\* C29 (case reached): the entries of a client that had used up its limit
\* have all expired, none was reset, and the next check is allowed with
\* remaining = limit - 1 on a window that holds its own timestamp only
C29_Witness ==
    \E t \in Tasks :
        /\ Returning(t) /\ task[t].result.allowed /\ resets = <<>>
        /\ task[t].k_before = 0
        /\ Len(admitted[task[t].client_id]) = task[t].limit + 1
        /\ task[t].result.remaining = task[t].limit - 1
        /\ client_windows[task[t].client_id] = << now >>

\* C29 (case reached): a check finds an entry that is exactly 60 s old; the
\* entry stays in the window and counts
C29_WitnessBoundary ==
    \E t \in Tasks :
        /\ Returning(t) /\ ~task[t].result.allowed
        /\ Head(client_windows[task[t].client_id]) = now - WINDOW_SECONDS

(***************************************************************************)
(* C30: the streams of the providers (SpecProvider)                        *)
(***************************************************************************)
\* The provider stream of the request was drained and raised no exception
ProviderStreamEnded ==
    /\ Streamed /\ req.upstream_calls = 1
    /\ \A i \in 1..Len(req.chunks) : ~req.chunks[i].raises

\* One chunk per contentBlockDelta event, in order
DeltaChunks(items) ==
    LET deltas == SelectSeq(items, LAMBDA item : item.payload = "contentBlockDelta")
    IN  [i \in 1..Len(deltas) |-> StreamChunk(BedrockChunkData, FALSE, deltas[i].content)]

\* C30: every provider stream (OpenAI and Bedrock) is finite and its last
\* element is a chunk with is_done = true and data = "[DONE]"; no chunk is
\* produced after it and no earlier chunk has is_done = true. For Bedrock the
\* order is: one chunk per contentBlockDelta, then on messageStop a finish
\* chunk with empty delta, then [DONE].
C30_StreamEndsWithDone ==
    ProviderStreamEnded =>
        /\ req.chunks # <<>>
        /\ req.chunks[Len(req.chunks)] = DoneChunk
        /\ \A i \in 1..(Len(req.chunks) - 1) : ~req.chunks[i].is_done
        /\ req.client.provider = "bedrock" =>
              req.chunks = DeltaChunks(req.upstream.items)
                              \o << StreamChunk(BedrockChunkData, FALSE, <<>>), DoneChunk >>

\* C30 (case reached): the Bedrock event stream ends without a messageStop
\* event and the provider stream ends without a done chunk
C30_Witness ==
    /\ ProviderStreamEnded /\ req.client.provider = "bedrock"
    /\ ~req.upstream.broken
    /\ \A i \in 1..Len(req.upstream.items) : req.upstream.items[i].payload # "messageStop"
    /\ req.chunks = << StreamChunk(BedrockChunkData, FALSE, <<"Hello!">>) >>
    /\ req.events = << SseData(BedrockChunkData) >>

\* C30 (case reached): the OpenAI upstream closes the stream without its
\* "[DONE]" line and the provider stream ends without a done chunk
C30_WitnessOpenAI ==
    /\ ProviderStreamEnded /\ req.client.provider = "openai"
    /\ ~req.upstream.broken
    /\ req.chunks = << StreamChunk("c1", FALSE, <<"Hello!">>) >>

\* C30 (case reached): a Bedrock stream with a messageStop event is
\* translated into the delta chunks, the finish chunk and the done chunk
C30_WitnessBedrockOrder ==
    /\ ProviderStreamEnded /\ req.client.provider = "bedrock"
    /\ req.chunks = << StreamChunk(BedrockChunkData, FALSE, <<"write to">>),
                       StreamChunk(BedrockChunkData, FALSE, <<"user@example.com">>),
                       StreamChunk(BedrockChunkData, FALSE, <<>>), DoneChunk >>

\* A stream whose upstream sends its end marker ("[DONE]", messageStop) ends
\* with the done chunk, and has no done chunk before
C30_MarkedStreamEndsWithDone ==
    ProviderStreamEnded
    /\ (\E i \in 1..Len(req.upstream.items) :
            req.upstream.items[i].payload \in {"[DONE]", "messageStop"})
    => C30_StreamEndsWithDone

(***************************************************************************)
(* SpecCache: DynamoDBClientStore.get_by_api_key, lookups by two tasks     *)
(* against a table the operator changes while the clock runs               *)
(***************************************************************************)

\* Variant: an entry is still served at the instant it expires
LiveInclusive(entry, t) == entry # NoEntry /\ t <= entry.expires_at

\* The entry is in the cache and time.monotonic() < expires_at
Live(entry, t) == entry # NoEntry /\ t < entry.expires_at

\* Variant: the result of every query is cached, a miss included
CacheEveryResult(cache, api_key, result, t) ==
    [cache EXCEPT ![api_key] = CacheEntry(result, t + CACHE_TTL)]

\* if result is not None: self._cache[api_key] = (result, monotonic() + CACHE_TTL)
CacheResult(cache, api_key, result, t) ==
    IF result # NoClient
    THEN [cache EXCEPT ![api_key] = CacheEntry(result, t + CACHE_TTL)]
    ELSE cache

InFlight(t) == lookups[t].pc \in {"query", "resume"}

\* get_by_api_key up to its await: a live entry answers the lookup, an expired
\* one is deleted, and without a live entry the query is handed to a thread
LookupStart(t, api_key) ==
    /\ lookups[t].pc = "idle"
    /\ LET entry == _cache[api_key]
           call == [IdleLookup EXCEPT !.api_key = api_key, !.t0 = now,
                                      !.seen = entry]
       IN  IF Live(entry, now)
           THEN /\ lookups' = [lookups EXCEPT ![t] =
                       [call EXCEPT !.pc = "done", !.result = entry.config]]
                /\ UNCHANGED << registryVars, _cache, overlaps >>
           ELSE /\ _cache' = [_cache EXCEPT ![api_key] = NoEntry]
                /\ lookups' = [lookups EXCEPT ![t] = [call EXCEPT !.pc = "query"]]
                /\ overlaps' =
                       IF \E u \in Tasks \ {t} :
                              InFlight(u) /\ lookups[u].api_key = api_key
                       THEN overlaps \cup {api_key}
                       ELSE overlaps
    /\ UNCHANGED << registryVars, table, queries, _clients, _last_mtime, file, settings, now, ticks, client_windows, req,
                    arrivals, admitted, fresh, limiterVars >>

\* The thread runs _query_by_key: the table answers with what it holds now, or
\* the query fails
LookupQuery(t) ==
    /\ lookups[t].pc = "query"
    /\ \E failed \in BOOLEAN :
         LET result == IF failed THEN NoClient
                       ELSE _query_by_key(table, lookups[t].api_key)
         IN  /\ lookups' = [lookups EXCEPT ![t] =
                    [@ EXCEPT !.pc = "resume", !.result = result,
                              !.raised = failed, !.queried = TRUE]]
             /\ queries' =
                    IF failed THEN queries
                    ELSE [queries EXCEPT ![lookups[t].api_key] =
                              IF result = NoClient
                              THEN [last |-> "none", missed |-> TRUE]
                              ELSE [@ EXCEPT !.last = "found"]]
    /\ UNCHANGED << registryVars, _cache, table, overlaps, _clients, _last_mtime, file, settings, now, ticks, client_windows,
                    req, arrivals, admitted, fresh, limiterVars >>

\* get_by_api_key after its await: a record found is cached for CACHE_TTL
\* from now; an exception of the query leaves the cache as it is
LookupResume(t) ==
    /\ lookups[t].pc = "resume"
    /\ _cache' = IF lookups[t].raised THEN _cache
                 ELSE CacheResult(_cache, lookups[t].api_key, lookups[t].result, now)
    /\ lookups' = [lookups EXCEPT ![t] = [@ EXCEPT !.pc = "done"]]
    /\ UNCHANGED << registryVars, table, queries, overlaps, _clients, _last_mtime, file, settings, now, ticks,
                    client_windows, req, arrivals, admitted, fresh, limiterVars >>

\* The caller takes the answer
LookupReturn(t) ==
    /\ lookups[t].pc = "done"
    /\ lookups' = [lookups EXCEPT ![t] = IdleLookup]
    /\ UNCHANGED << registryVars, _cache, table, queries, overlaps, _clients, _last_mtime, file,
                    settings, now, ticks,
                    client_windows, req, arrivals, admitted, fresh, limiterVars >>

\* The operator provisions, changes or removes the record under a key
TableWrite(api_key) ==
    /\ \E item \in (TableItems(api_key) \cup {NoClient}) \ {table[api_key]} :
           table' = [table EXCEPT ![api_key] = item]
    /\ UNCHANGED << registryVars, _cache, lookups, queries, overlaps, _clients, _last_mtime, file,
                    settings, now, ticks,
                    client_windows, req, arrivals, admitted, fresh, limiterVars >>

\* The monotonic clock advances, also while a query is in flight
CacheTick ==
    /\ ticks < MaxCacheTicks
    /\ \E d \in CacheTickSteps : now' = now + d
    /\ ticks' = ticks + 1
    /\ UNCHANGED << storeVars, settings, client_windows, req, arrivals, admitted,
                    fresh, limiterVars >>

NextCache ==
    \/ \E t \in Tasks, api_key \in CacheKeys : LookupStart(t, api_key)
    \/ \E t \in Tasks : LookupQuery(t)
    \/ \E t \in Tasks : LookupResume(t)
    \/ \E t \in Tasks : LookupReturn(t)
    \/ \E api_key \in CacheKeys : TableWrite(api_key)
    \/ CacheTick

SpecCache == InitWith({DefaultSettings}) /\ [][NextCache]_vars

CacheTypeOK ==
    /\ \A k \in CacheKeys : _cache[k] = NoEntry \/ _cache[k].config.api_key = k
    /\ \A t \in Tasks : lookups[t].pc \in {"idle", "query", "resume", "done"}

(***************************************************************************)
(* C31: the DynamoDB store never caches a lookup miss                      *)
(***************************************************************************)

\* C31: the cache holds records only, never the nothing of a miss; when the
\* last backend query of a key returned nothing (and no two lookups of the key
\* were in flight at once) the cache holds no entry for the key; and a lookup
\* that found no entry for its key has queried the backend.
C31_MissNeverCached ==
    \A k \in CacheKeys :
        /\ _cache[k] # NoEntry => _cache[k].config \in TableItems(k)
        /\ (queries[k].last = "none" /\ k \notin overlaps) => _cache[k] = NoEntry
        /\ \A t \in Tasks :
               (lookups[t].pc = "done" /\ lookups[t].api_key = k
                /\ lookups[t].seen = NoEntry)
               => lookups[t].queried

\* A key was looked up and missed, the client was provisioned, and the next
\* lookup queried the table and returns the record
C31_Witness ==
    \E t \in Tasks :
        /\ lookups[t].pc = "done" /\ lookups[t].queried /\ ~lookups[t].raised
        /\ lookups[t].seen = NoEntry
        /\ lookups[t].result # NoClient
        /\ queries[lookups[t].api_key].missed
        /\ overlaps = {}

\* A lookup has just missed and the cache has no entry for its key
C31_WitnessMiss ==
    \E t \in Tasks :
        /\ lookups[t].pc = "done" /\ lookups[t].queried /\ ~lookups[t].raised
        /\ lookups[t].result = NoClient
        /\ queries[lookups[t].api_key].last = "none"
        /\ overlaps = {}

(***************************************************************************)
(* C32: a cached record is served for CACHE_TTL and no longer              *)
(***************************************************************************)

Started(t) == lookups[t].pc # "idle"
SawEntry(t) == Started(t) /\ lookups[t].seen # NoEntry
CachedAt(entry) == entry.expires_at - CACHE_TTL

\* C32: a lookup that finds an entry less than 300 s after it was cached
\* returns the cached record without a backend query; a lookup at or after
\* the entry's expiry removes that entry and answers from a backend query; no
\* entry outlives 300 s from now, so a lookup served from the cache returns a
\* record at most 300 s older than the table.
C32_ServedFromCacheForTTL ==
    /\ \A k \in CacheKeys :
           _cache[k] # NoEntry => _cache[k].expires_at <= now + CACHE_TTL
    /\ \A t \in Tasks :
           /\ (SawEntry(t) /\ lookups[t].t0 - CachedAt(lookups[t].seen) < CACHE_TTL)
              => (/\ lookups[t].pc = "done"
                  /\ ~lookups[t].queried
                  /\ lookups[t].result = lookups[t].seen.config)
           /\ (SawEntry(t) /\ lookups[t].t0 - CachedAt(lookups[t].seen) >= CACHE_TTL)
              => (/\ _cache[lookups[t].api_key] # lookups[t].seen
                  /\ lookups[t].pc = "done" => lookups[t].queried)
           /\ (lookups[t].pc = "done" /\ ~lookups[t].queried)
              => (/\ SawEntry(t)
                  /\ lookups[t].t0 - CachedAt(lookups[t].seen) < CACHE_TTL)

\* A lookup 299.9 s after the entry was cached is served from the cache
C32_Witness ==
    \E t \in Tasks :
        /\ lookups[t].pc = "done" /\ ~lookups[t].queried /\ SawEntry(t)
        /\ lookups[t].t0 - CachedAt(lookups[t].seen) = CACHE_TTL - 1

\* A lookup exactly 300 s after the entry was cached queries the table again
C32_WitnessExpiry ==
    \E t \in Tasks :
        /\ lookups[t].pc = "done" /\ lookups[t].queried /\ SawEntry(t)
        /\ lookups[t].t0 - CachedAt(lookups[t].seen) = CACHE_TTL
        /\ ~lookups[t].raised

\* The record was suspended in the table and a lookup is still served the
\* cached active record
C32_WitnessStale ==
    \E t \in Tasks :
        /\ lookups[t].pc = "done" /\ ~lookups[t].queried
        /\ lookups[t].result.status = "active"
        /\ table[lookups[t].api_key] # NoClient
        /\ table[lookups[t].api_key].status = "suspended"

(***************************************************************************)
(* SpecFile: JSONClientStore, lookups by two callers while the operator    *)
(* rewrites and removes the registry file                                  *)
(***************************************************************************)

FileKeys == {KeyA, KeyB, KeyBad, KeyUnicode}

IsAscii(text) == \A i \in 1..Len(text) : text[i] \notin NonAscii

\* hmac.compare_digest on two str: TypeError unless both are ASCII
compare_digest(a, b) ==
    [raised |-> ~(IsAscii(a) /\ IsAscii(b)), equal |-> a = b]

\* Variant: the loaded records are kept whenever there are any
UpToDateOnceLoaded(mtime, last_mtime, clients) == clients # <<>>

\* _load: `if mtime == self._last_mtime and self._clients: return`
UpToDate(mtime, last_mtime, clients) == mtime = last_mtime /\ clients # <<>>

\* JSONClientStore._load: no records when the file cannot be stat'ed, the
\* records as they are when the mtime is the one last loaded, else the whole
\* file parsed and assigned at once (or the exception of json.load)
_load(f, clients, last_mtime) ==
    CASE ~f.exists ->
           [clients |-> <<>>, last_mtime |-> last_mtime, raised |-> FALSE,
            reloaded |-> FALSE]
      [] f.exists /\ UpToDate(f.mtime, last_mtime, clients) ->
           [clients |-> clients, last_mtime |-> last_mtime, raised |-> FALSE,
            reloaded |-> FALSE]
      [] f.exists /\ ~UpToDate(f.mtime, last_mtime, clients)
                  /\ f.version = "garbage" ->
           [clients |-> clients, last_mtime |-> last_mtime, raised |-> TRUE,
            reloaded |-> FALSE]
      [] OTHER ->
           [clients |-> FileVersions[f.version], last_mtime |-> f.mtime,
            raised |-> FALSE, reloaded |-> TRUE]

\* The loop of JSONClientStore.get_by_api_key from record i on: every record
\* is compared, the last equal one is kept, a TypeError of compare_digest ends
\* the loop
RECURSIVE ScanFrom(_, _, _, _)
ScanFrom(clients, api_key, i, match) ==
    IF i > Len(clients)
    THEN [match |-> match, compared |-> Len(clients), raised |-> FALSE]
    ELSE LET c == compare_digest(api_key, clients[i].api_key)
         IN  IF c.raised
             THEN [match |-> NoClient, compared |-> i, raised |-> TRUE]
             ELSE ScanFrom(clients, api_key, i + 1,
                           IF c.equal THEN clients[i] ELSE match)

\* JSONClientStore.get_by_api_key: _load, then the loop; no await in between
JsonLookup(t, api_key) ==
    /\ lookups[t].pc = "idle"
    /\ LET loaded == _load(file, _clients, _last_mtime)
           scan == ScanFrom(loaded.clients, api_key, 1, NoClient)
           call == [IdleLookup EXCEPT !.pc = "done", !.api_key = api_key,
                                      !.stat = file, !.before = _clients,
                                      !.mtime_before = _last_mtime]
       IN  /\ _clients' = loaded.clients
           /\ _last_mtime' = loaded.last_mtime
           /\ lookups' = [lookups EXCEPT ![t] =
                  IF loaded.raised
                  THEN [call EXCEPT !.raised = TRUE]
                  ELSE [call EXCEPT !.raised = scan.raised, !.result = scan.match,
                                    !.compared = scan.compared,
                                    !.records = loaded.clients,
                                    !.queried = loaded.reloaded]]
    /\ UNCHANGED << registryVars, _cache, table, queries, overlaps, file, settings, now, ticks,
                    client_windows, req, arrivals, admitted, fresh, limiterVars >>

\* The caller (a request past authentication) drops the record it was given
JsonRelease(t) ==
    /\ lookups[t].pc = "done"
    /\ lookups' = [lookups EXCEPT ![t] = IdleLookup]
    /\ UNCHANGED << registryVars, _cache, table, queries, overlaps, _clients, _last_mtime, file,
                    settings, now, ticks, client_windows, req, arrivals, admitted,
                    fresh, limiterVars >>

\* The operator writes the file: new contents, a new modification time
FileWrite(version) ==
    /\ file.mtime < MaxMtime
    /\ file' = FileState(TRUE, file.mtime + 1, version)
    /\ UNCHANGED << registryVars, _cache, table, lookups, queries, overlaps, _clients,
                    _last_mtime, settings, now, ticks, client_windows, req,
                    arrivals, admitted, fresh, limiterVars >>

\* The operator removes the file
FileRemove ==
    /\ file.exists
    /\ file' = [file EXCEPT !.exists = FALSE]
    /\ UNCHANGED << registryVars, _cache, table, lookups, queries, overlaps, _clients,
                    _last_mtime, settings, now, ticks, client_windows, req,
                    arrivals, admitted, fresh, limiterVars >>

NextFile ==
    \/ \E t \in Tasks, api_key \in FileKeys : JsonLookup(t, api_key)
    \/ \E t \in Tasks : JsonRelease(t)
    \/ \E version \in DOMAIN FileVersions : FileWrite(version)
    \/ FileRemove

SpecFile == InitWith({DefaultSettings}) /\ [][NextFile]_vars

(***************************************************************************)
(* C33: the file-backed lookup scans every record                          *)
(***************************************************************************)

Looked(t) == lookups[t].pc = "done"
LoadFailed(t) == lookups[t].raised /\ lookups[t].records = <<>>

ScannedAll(t) ==
    /\ ~lookups[t].raised
    /\ lookups[t].compared = Len(lookups[t].records)
    /\ lookups[t].result = get_by_api_key(lookups[t].records, lookups[t].api_key)

\* C33: a file-backed lookup compares the presented key against every loaded
\* record wherever a match occurs and returns the last matching record or
\* nothing; it does not fail.
C33_LookupScansEveryRecord ==
    \A t \in Tasks : (Looked(t) /\ ~LoadFailed(t)) => ScannedAll(t)

\* A key with a character outside ASCII is looked up in a registry of two or
\* more records: the first comparison raises and the lookup fails
C33_Witness ==
    \E t \in Tasks :
        /\ Looked(t) /\ lookups[t].api_key = KeyUnicode
        /\ Len(lookups[t].records) >= 2
        /\ lookups[t].raised /\ lookups[t].compared = 1

\* C33, for keys within ASCII: every loaded record is compared and the last
\* matching record or nothing is returned, duplicate keys included.
C33_AsciiLookupScansEveryRecord ==
    \A t \in Tasks :
        (Looked(t) /\ ~LoadFailed(t) /\ IsAscii(lookups[t].api_key))
        => ScannedAll(t)

\* The file holds two records under one key, the first and the third of
\* three: all three are compared and the third is returned
C33_WitnessDuplicate ==
    \E t \in Tasks :
        /\ Looked(t) /\ lookups[t].api_key = KeyA
        /\ lookups[t].records = FileVersions["v3"]
        /\ lookups[t].compared = 3
        /\ lookups[t].result = FileVersions["v3"][3]

(***************************************************************************)
(* C34: a lookup is answered from one complete record set                  *)
(***************************************************************************)

MtimeChanged(t) ==
    lookups[t].stat.exists /\ lookups[t].stat.mtime # lookups[t].mtime_before

Holds(records, client) == \E i \in 1..Len(records) : records[i] = client

\* C34: every lookup is answered from one whole record set, the records as
\* last loaded or the file as it is now; when the file's modification time is
\* not the one last loaded, the lookup is answered from the file's present
\* contents only and the store holds exactly those; and a record handed to a
\* caller stays as it is through every later write, removal and reload.
C34_LookupFromOneRecordSet ==
    /\ [](\A t \in Tasks :
            (Looked(t) /\ ~LoadFailed(t)) =>
                /\ lookups[t].records
                       \in {lookups[t].before, FileVersions[lookups[t].stat.version],
                            <<>>}
                /\ MtimeChanged(t) =>
                       lookups[t].records = FileVersions[lookups[t].stat.version]
                /\ lookups[t].result # NoClient =>
                       Holds(lookups[t].records, lookups[t].result))
    /\ [][ /\ \A t \in Tasks :
                (Looked(t) /\ lookups'[t].pc = "done") => lookups'[t] = lookups[t]
           /\ \A t \in Tasks :
                (~Looked(t) /\ lookups'[t].pc = "done" /\ ~lookups'[t].raised)
                => _clients' = lookups'[t].records ]_vars

\* The file was rewritten without client A's record being active and with a
\* new modification time; the next lookup loaded the new contents while the
\* other caller still holds the active record it was given before
C34_Witness ==
    \E t, u \in Tasks :
        /\ Looked(t) /\ MtimeChanged(t) /\ lookups[t].queried
        /\ lookups[t].api_key = KeyA /\ lookups[t].result.status = "suspended"
        /\ lookups[t].before = FileVersions["v1"]
        /\ Looked(u) /\ lookups[u].api_key = KeyA
        /\ lookups[u].result = RegistryFile[1]

\* The new file holds no clients: the key that authenticated no longer does
C34_WitnessRemoved ==
    \E t \in Tasks :
        /\ Looked(t) /\ MtimeChanged(t) /\ lookups[t].api_key = KeyA
        /\ lookups[t].before = FileVersions["v1"]
        /\ lookups[t].stat.version = "v4"
        /\ lookups[t].result = NoClient /\ ~lookups[t].raised

\* The file was removed, then written again: the key authenticates again
C34_WitnessAdded ==
    \E t \in Tasks :
        /\ Looked(t) /\ MtimeChanged(t) /\ lookups[t].before = <<>>
        /\ lookups[t].result = RegistryFile[2]

(***************************************************************************)
(* SpecRegistry: get_provider and close_all_providers                      *)
(***************************************************************************)

gatewayVars ==
    << settings, now, ticks, client_windows, req, arrivals, admitted, fresh,
       limiterVars >>

\* A provider instance: OpenAIProvider holds an httpx client once it was used
\* ("connected"); close() leaves an instance "closed", and it is "closing"
\* while close() awaits aclose()
Instance(name, state) == [name |-> name, state |-> state]
NoInstance == Instance("", "none")
Created == {id \in 1..MaxInstances : instances[id] # NoInstance}

Index(providers, name) ==
    CHOOSE i \in 1..Len(providers) : providers[i].name = name

\* Variant: no name is ever found in the registry
NeverRegistered(providers, name) == FALSE

\* `name in _providers`
Registered(providers, name) ==
    \E i \in 1..Len(providers) : providers[i].name = name

\* `_providers[name] = instance`: a new key goes last, a known key keeps its place
Put(providers, name, id) ==
    IF \E i \in 1..Len(providers) : providers[i].name = name
    THEN [providers EXCEPT ![Index(providers, name)].instance = id]
    ELSE Append(providers, [name |-> name, instance |-> id])

GetEntry(name, id, raised) ==
    [name |-> name, instance |-> id, raised |-> raised, epoch |-> closing.calls,
     during |-> closing.pc = "suspended",
     state |-> IF id = 0 THEN "none" ELSE "new"]

\* get_provider(name): the registered instance, else a new OpenAIProvider or
\* BedrockProvider registered under the name, else ValueError
get_provider(name) ==
    /\ closing.pc \in {"idle", "suspended"}
    /\ Len(gets) < MaxGets
    /\ closing' = [closing EXCEPT !.disturbed = @ \/ closing.pc = "suspended"]
    /\ IF Registered(_providers, name)
       THEN LET id == _providers[Index(_providers, name)].instance
            IN  /\ gets' = Append(gets, [GetEntry(name, id, FALSE)
                                            EXCEPT !.state = instances[id].state])
                /\ UNCHANGED << _providers, instances >>
       ELSE IF name \in Providers
       THEN /\ Cardinality(Created) < MaxInstances
            /\ LET id == Cardinality(Created) + 1
               IN  /\ _providers' = Put(_providers, name, id)
                   /\ instances' = [instances EXCEPT ![id] = Instance(name, "new")]
                   /\ gets' = Append(gets, GetEntry(name, id, FALSE))
       ELSE /\ gets' = Append(gets, GetEntry(name, 0, TRUE))
            /\ UNCHANGED << _providers, instances >>
    /\ UNCHANGED << cacheVars, fileVars, lookups, gatewayVars >>

\* A caller that holds an OpenAIProvider sends a request: _get_client opens
\* the httpx client
UseProvider(id) ==
    /\ closing.pc \in {"idle", "suspended"}
    /\ instances[id].name = "openai"
    /\ instances[id].state \in {"new", "closed"}
    /\ instances' = [instances EXCEPT ![id].state = "connected"]
    /\ UNCHANGED << _providers, closing, gets, cacheVars, fileVars, lookups,
                    gatewayVars >>

\* close_all_providers is called: the iteration over _providers.values() begins
CloseStart ==
    /\ closing.pc = "idle"
    /\ closing.calls < MaxCloses
    /\ closing' = [closing EXCEPT !.pc = "running", !.size = Len(_providers),
                                  !.i = 0, !.calls = @ + 1, !.raised = FALSE,
                                  !.registered =
                                      {_providers[i].instance : i \in 1..Len(_providers)}]
    /\ UNCHANGED << _providers, instances, gets, cacheVars, fileVars, lookups,
                    gatewayVars >>

\* One turn of the loop: the iterator raises RuntimeError when the dict changed
\* size; after the last value the registry is cleared; else the next instance
\* is closed, and closing a connected OpenAIProvider awaits aclose()
CloseNext ==
    /\ closing.pc = "running"
    /\ IF Len(_providers) # closing.size
       THEN /\ closing' = [closing EXCEPT !.pc = "done", !.raised = TRUE]
            /\ UNCHANGED << _providers, instances >>
       ELSE IF closing.i = closing.size
       THEN /\ _providers' = <<>>
            /\ closing' = [closing EXCEPT !.pc = "done"]
            /\ UNCHANGED instances
       ELSE LET id == _providers[closing.i + 1].instance
                suspends == instances[id].state = "connected"
            IN  /\ instances' = [instances EXCEPT ![id].state =
                       IF suspends THEN "closing" ELSE "closed"]
                /\ closing' = [closing EXCEPT
                       !.i = @ + 1,
                       !.pc = IF suspends THEN "suspended" ELSE "running"]
                /\ UNCHANGED _providers
    /\ UNCHANGED << gets, cacheVars, fileVars, lookups, gatewayVars >>

\* aclose() has finished: the instance drops its client and the loop goes on
CloseResume ==
    /\ closing.pc = "suspended"
    /\ closing' = [closing EXCEPT !.pc = "running"]
    /\ instances' = [id \in 1..MaxInstances |->
           IF instances[id].state = "closing"
           THEN [instances[id] EXCEPT !.state = "closed"] ELSE instances[id]]
    /\ UNCHANGED << _providers, gets, cacheVars, fileVars, lookups, gatewayVars >>

\* close_all_providers returns, or its exception leaves it
CloseReturn ==
    /\ closing.pc = "done"
    /\ closing' = [closing EXCEPT !.pc = "idle"]
    /\ UNCHANGED << _providers, instances, gets, cacheVars, fileVars, lookups,
                    gatewayVars >>

NextRegistry ==
    \/ \E name \in ProviderNames : get_provider(name)
    \/ \E id \in 1..MaxInstances : UseProvider(id)
    \/ CloseStart
    \/ CloseNext
    \/ CloseResume
    \/ CloseReturn

SpecRegistry == InitWith({DefaultSettings}) /\ [][NextRegistry]_vars

(***************************************************************************)
(* C35: one provider instance per name between two closes                  *)
(***************************************************************************)

Returned(a) == a \in 1..Len(gets) /\ ~gets[a].raised /\ ~gets[a].during

\* C35: the registry holds at most one instance per name; calls of
\* get_provider(name) between the same two calls of close_all_providers return
\* the same instance; an unknown name raises and leaves the registry as it
\* is; close_all_providers, when no get_provider runs while it awaits, closes
\* every registered instance and empties the registry, and the next
\* get_provider(name) returns an instance that did not exist before.
C35_OneInstancePerName ==
    /\ [](/\ \A i, j \in 1..Len(_providers) :
                _providers[i].name = _providers[j].name => i = j
          /\ \A a, b \in 1..Len(gets) :
                (Returned(a) /\ Returned(b) /\ gets[a].name = gets[b].name
                 /\ gets[a].epoch = gets[b].epoch)
                => gets[a].instance = gets[b].instance
          /\ \A a \in 1..Len(gets) :
                gets[a].raised <=> gets[a].name \notin Providers
          /\ (closing.pc = "done" /\ ~closing.disturbed) =>
                /\ ~closing.raised
                /\ _providers = <<>>
                /\ \A id \in closing.registered : instances[id].state = "closed"
          /\ ~closing.disturbed =>
                \A a, b \in 1..Len(gets) :
                    (Returned(a) /\ Returned(b) /\ gets[a].name = gets[b].name
                     /\ gets[a].epoch < gets[b].epoch)
                    => (/\ gets[b].instance > gets[a].instance
                        /\ \E c \in 1..b :
                              /\ gets[c].instance = gets[b].instance
                              /\ gets[c].epoch = gets[b].epoch
                              /\ gets[c].state = "new"))
    /\ [][ (Len(gets') > Len(gets) /\ gets'[Len(gets')].raised)
           => (_providers' = _providers /\ instances' = instances) ]_vars

\* get_provider("openai") returned one instance twice, the instance was used
\* and then closed with the whole registry, and the next get_provider("openai")
\* returned another instance
C35_Witness ==
    /\ ~closing.disturbed /\ closing.pc = "idle" /\ closing.calls = 1
    /\ \E a, b, c \in 1..Len(gets) :
          /\ a < b /\ b < c
          /\ gets[a].name = "openai" /\ gets[b].name = "openai"
          /\ gets[c].name = "openai"
          /\ gets[a].epoch = 0 /\ gets[b].epoch = 0 /\ gets[c].epoch = 1
          /\ gets[a].instance = gets[b].instance
          /\ gets[c].instance # gets[a].instance
          /\ instances[gets[a].instance].state = "closed"
          /\ gets[b].state = "connected"

\* A registry of two instances has just been closed and emptied
C35_WitnessCloseAll ==
    /\ closing.pc = "done" /\ ~closing.disturbed /\ closing.size = 2
    /\ _providers = <<>>

\* An unknown name was asked for while two providers were registered
C35_WitnessUnknown ==
    /\ Len(_providers) = 2
    /\ \E a \in 1..Len(gets) : gets[a].raised /\ gets[a].name = "fake-provider"

(***************************************************************************)
(* C36: in redact mode no dispatched message holds detected PII            *)
(***************************************************************************)

\* The text of a message: its string content, or its text parts
MessageText(msg) == JoinLines(MessageTexts(msg))

\* The PII matches the scanner detected in the prompt of the received body
Detected(body) ==
    {_extract_prompt_content(body)[i] : i \in
        {j \in 1..Len(_extract_prompt_content(body)) :
            PIIType(_extract_prompt_content(body)[j]) # ""}}

HoldsDetected(msg, body) ==
    \E i \in 1..Len(MessageText(msg)) : MessageText(msg)[i] \in Detected(body)

DispatchedUnderRedact == req.sent # NoBody /\ settings.pii_action = "redact"

\* C36: under PII_ACTION redact no message of the dispatched body holds a PII
\* match the scanner detected in the prompt, wherever in the conversation the
\* match sits and also when there is no user-role message.
C36_NoDetectedPIIDispatched ==
    DispatchedUnderRedact =>
        \A i \in 1..Len(req.sent.messages) :
            ~HoldsDetected(req.sent.messages[i], req.received)

\* A conversation whose system message holds an SSN was dispatched under
\* redact with the SSN still in the system message
C36_Witness ==
    /\ DispatchedUnderRedact
    /\ req.pii_result.detection_count > 0
    /\ req.received.messages[1].role = "system"
    /\ UserMessages(req.received) # {}
    /\ HoldsDetected(req.sent.messages[1], req.received)

\* A conversation without a user-role message was dispatched under redact
\* exactly as received, PII included
C36_WitnessNoUser ==
    /\ DispatchedUnderRedact
    /\ req.pii_result.detection_count > 0
    /\ UserMessages(req.received) = {}
    /\ req.sent = req.received

\* C36, for the one message the pipeline rewrites: under redact the last
\* user-role message of the dispatched body holds no detected PII match.
C36_LastUserMessageHoldsNoPII ==
    (DispatchedUnderRedact /\ UserMessages(req.received) # {}) =>
        \A i \in UserMessages(req.sent) :
            (\A j \in UserMessages(req.sent) : j <= i)
            => ~HoldsDetected(req.sent.messages[i], req.received)

(***************************************************************************)
(* C37: the pipeline and the scanner agree on the PII action               *)
(***************************************************************************)

\* scan_for_pii returned a block-mode result for the request
BlockModeResult ==
    /\ Reached("pii")
    /\ ~req.pii_result.clean
    /\ ~req.pii_result.redacted_content.some
    /\ req.pii_result.detection_count > 0

ForwardedUnredacted ==
    /\ req.sent # NoBody /\ req.sent = req.received
    /\ req.pii_result.detection_count > 0

\* C37: for every configured PII_ACTION, letter case aside, a block-mode
\* result of scan_for_pii makes the pipeline answer 400 at the PII stage
\* without dispatching, and a prompt with detected PII reaches the provider
\* unredacted only under log_only.
C37_PipelineAndScannerAgree ==
    /\ BlockModeResult =>
          (RejectedAt("pii") /\ req.resp.status = 400 /\ req.sent = NoBody)
    /\ ForwardedUnredacted => Lower(settings.pii_action) = "log_only"

\* PII_ACTION is BLOCK: the scanner returned a block-mode result and the
\* prompt was dispatched as received
C37_Witness ==
    /\ settings.pii_action = "BLOCK"
    /\ BlockModeResult
    /\ ForwardedUnredacted
    /\ Reached("dispatch")

\* C37, for PII_ACTION spelled in lower case: a block-mode result is answered
\* 400 at the PII stage and nothing is dispatched.
C37_LowerCaseActionsAgree ==
    (BlockModeResult /\ settings.pii_action = Lower(settings.pii_action)) =>
        (RejectedAt("pii") /\ req.resp.status = 400 /\ req.sent = NoBody)

\* PII_ACTION is block and the request was answered 400 at the PII stage
C37_WitnessBlock ==
    /\ settings.pii_action = "block" /\ BlockModeResult /\ RejectedAt("pii")

(***************************************************************************)
(* C38: the window never holds more than the limit                         *)
(***************************************************************************)

\* The step in which task t takes the denied branch of check_rate_limit
Denies(t) == task[t].pc = "rl_prune" /\ task'[t].pc = "rl_return"

\* C38: the window of a client with limit L >= 1 never holds more than L
\* timestamps; a denied check leaves the window without any new entry (it only
\* prunes); and a denied result comes with a non-empty window, whose oldest
\* entry gives reset_seconds.
C38_WindowWithinLimit ==
    /\ [](/\ \A client \in LimitedClients :
                Len(client_windows[client.client_id]) <= LimitOf(client.client_id)
          /\ \A t \in Tasks :
                (Returning(t) /\ ~task[t].result.allowed) =>
                    LET window == client_windows[task[t].client_id]
                    IN  /\ window # <<>>
                        /\ Len(window) = LimitOf(task[t].client_id)
                        /\ task[t].result.reset_seconds
                               = window[1] + WINDOW_SECONDS - task[t].rl_now
                        /\ task[t].result.reset_seconds >= 0)
    /\ [][ \A t \in Tasks :
              Denies(t) =>
                  /\ ~task'[t].result.allowed
                  /\ admitted' = admitted
                  /\ \E k \in 0..Len(client_windows[task[t].client_id]) :
                        /\ DropsFirst(task[t].client_id, k)
                        /\ Len(client_windows'[task[t].client_id])
                               = Len(client_windows[task[t].client_id]) - k ]_vars

\* A client with limit 1 is denied 30 s after its admitted check: the window
\* holds that one timestamp and reset_seconds is the 30 s left
C38_Witness ==
    \E t \in Tasks :
        /\ Returning(t) /\ ~task[t].result.allowed
        /\ LimitOf(task[t].client_id) = 1
        /\ Len(client_windows[task[t].client_id]) = 1
        /\ task[t].result.reset_seconds = 300

\* A client with limit 2 holds two timestamps and is denied
C38_WitnessFull ==
    \E t \in Tasks :
        /\ Returning(t) /\ ~task[t].result.allowed
        /\ Len(client_windows[task[t].client_id]) = 2

(***************************************************************************)
(* C39: an admitted request takes one slot, whatever happens to it later   *)
(***************************************************************************)

\* The pipeline where every later stage can reject: the defaults, PII_ACTION
\* block, and a deployment on Lambda
SlotDeployments ==
    { DefaultSettings, [DefaultSettings EXCEPT !.pii_action = "block"],
      [DefaultSettings EXCEPT !.aws_lambda = "my-gateway-lambda"] }

SpecSlots == InitWith(SlotDeployments) /\ [][Next]_vars

Admitted == Reached("rate_limit") /\ req.rate_result.allowed

OthersUntouched(client_id) ==
    \A c \in ClientIds \ {client_id} : client_windows'[c] = client_windows[c]

\* C39: the rate-limit stage of an admitted request puts exactly one
\* timestamp, the time of the check, at the end of its client's window; a
\* denied one puts none; no other stage and no rejection at authentication
\* touches any window; so the slot stays taken when a later stage rejects.
C39_AdmittedRequestTakesOneSlot ==
    /\ [](Admitted =>
            LET window == client_windows[req.client.client_id]
            IN  /\ Len(window) = req.k_before + 1
                /\ window[Len(window)] = now)
    /\ [][ IF req.pc = "rate_limit"
           THEN LET c == req.client.client_id
                    grown == IF req'.rate_result.allowed THEN 1 ELSE 0
                IN  /\ OthersUntouched(c)
                    /\ \E k \in 0..Len(client_windows[c]) :
                          /\ DropsFirst(c, k)
                          /\ Len(client_windows'[c]) = Len(client_windows[c]) - k + grown
           ELSE client_windows' = client_windows ]_vars

\* A request was admitted and then rejected by the allowlist; its timestamp
\* is in the window
C39_Witness ==
    /\ Admitted /\ RejectedAt("allowlist")
    /\ client_windows[req.client.client_id] = << now >>

\* The same for a request rejected by the injection scan, the PII scan or the
\* streaming guard, and for one that was dispatched
C39_WitnessInjection ==
    Admitted /\ RejectedAt("injection") /\ client_windows[req.client.client_id] # <<>>

C39_WitnessPII ==
    Admitted /\ RejectedAt("pii") /\ client_windows[req.client.client_id] # <<>>

C39_WitnessGuard ==
    Admitted /\ RejectedAt("guard") /\ client_windows[req.client.client_id] # <<>>

\* A second request of a client with limit 1 was denied and added nothing
C39_WitnessDenied ==
    /\ RejectedAt("rate_limit") /\ req.resp.status = 429
    /\ Len(client_windows[req.client.client_id]) = 1

\* A request was rejected at authentication and every window is empty
C39_WitnessAuth ==
    /\ RejectedAt("auth") /\ arrivals = MaxRequests
    /\ \A c \in ClientIds : client_windows[c] = <<>>

(***************************************************************************)
(* C40: two API keys, two windows                                          *)
(***************************************************************************)

\* Two callers, each with a key of their own: the first request comes from
\* the holder of the first legacy key or from client A, the later ones from
\* the holder of the second legacy key or from client B
ArriveInTurn ==
    ArriveWith(IF arrivals = 0 THEN {KeyLegacy1, KeyA} ELSE {KeyLegacy2, KeyB})

NextLegacy ==
    \/ ArriveInTurn
    \/ Authenticate
    \/ ParseBody
    \/ RateLimitStage
    \/ AllowlistStage
    \/ InjectionStage
    \/ PIIStage
    \/ GuardStage
    \/ Dispatch
    \/ UpstreamReturn
    \/ StreamBody
    \/ Complete
    \/ Tick

SpecLegacy == InitWith({DefaultSettings}) /\ [][NextLegacy]_vars

Authenticated == Reached("auth") /\ req.client # NoClient

\* The window another key's requests are counted in, when that key authenticates
WindowOf(api_key) == verify_api_key(settings, api_key).client.client_id
Accepted(api_key) == verify_api_key(settings, api_key).status = 0

\* C40: the window an authenticated request is counted in is the window of no
\* other API key that authenticates, legacy keys and directory keys alike.
C40_DifferentKeysDifferentWindows ==
    Authenticated =>
        \A other \in Keys \ {req.key} :
            Accepted(other) => WindowOf(other) # req.client.client_id

\* The holder of dev-key-2 sends their first request right after one request
\* made with dev-key-1 and is answered 429: both keys count in the window
\* legacy-dev-key-
C40_Witness ==
    /\ req.key = KeyLegacy2 /\ RejectedAt("rate_limit") /\ req.resp.status = 429
    /\ arrivals = 2
    /\ req.client.client_id = LegacyId(KeyLegacy1)
    /\ Len(admitted[req.client.client_id]) = 1

\* C40, for the keys of the directory: a request authenticated through the
\* directory is counted in a window of its own.
C40_DirectoryKeysHaveOwnWindows ==
    (Authenticated /\ KeyInDirectory(req.key)) =>
        \A other \in Keys \ {req.key} :
            Accepted(other) => WindowOf(other) # req.client.client_id

\* Client B sends a request after client A's was admitted and is admitted too
C40_WitnessDirectory ==
    /\ req.key = KeyB /\ Admitted /\ arrivals = 2
    /\ Len(admitted[IdA]) = 1 /\ Len(admitted[IdB]) = 1

====
